---- MODULE Spec2Model ----
(***************************************************************************)
(* State-machine model of the SceneManager of the CS330 OpenGL 3D scene:   *)
(* the texture and material registries, the shader uniforms written        *)
(* through the ShaderManager, and the transform / attribute pipeline.      *)
(*                                                                         *)
(* Numbers.  Lengths, colours, UV scales and material fields are floats in *)
(* the source; they are held here in thousandths (0.3f is 300), and so are  *)
(* angles in degrees (14.6f is 14600) and the entries of matrices.         *)
(* glm::radians yields milliradians; cosine and sine are computed in       *)
(* thousandths and are exact on quarter turns.                             *)
(***************************************************************************)
EXTENDS Integers, Sequences, FiniteSets, TLC

VARIABLES
    m_pShaderManager,   \* "NULL" or "shader": the constructor's argument
    m_loadedTextures,   \* int: number of registry entries in use
    m_textureIDs,       \* TEXTURE_INFO[16]: index -> [tag, ID]
    m_objectMaterials,  \* std::vector<OBJECT_MATERIAL>
    gl,                 \* OpenGL objects: texture names, unfreed images, units, meshes
    shader,             \* uniform name -> value of the active shader program
    trace,              \* events (uniform writes, mesh draws) of the last call, in order
    call,               \* the last call that returned: its name, arguments, result
    loadOrder,          \* history: tags of the successful CreateGLTexture calls, in order
    fault,              \* "none", or the memory fault that ended the program
    g_pCamera,          \* the ViewManager's camera: Position, Front, Up, Zoom
    bOrthographicProjection,  \* the ViewManager's projection switch
    windowShouldClose   \* the close flag of the display window

vars == <<m_pShaderManager, m_loadedTextures, m_textureIDs, m_objectMaterials,
          gl, shader, trace, call, loadOrder, fault,
          g_pCamera, bOrthographicProjection, windowShouldClose>>

\* the state of the ViewManager, which no SceneManager method touches
viewVars == <<g_pCamera, bOrthographicProjection, windowShouldClose>>

(***************************************************************************)
(* Program constants and model bounds                                      *)
(***************************************************************************)
\* TEXTURE_INFO m_textureIDs[16]
TextureSlots == 16

\* cap on CreateGLTexture calls that decode an image (each generates a GL name)
MaxLoads == 2

\* cap on DefineObjectMaterials calls
MaxMaterialDefs == 1

\* PrepareScene runs at most this many times
MaxPrepares == 2

\* DestroyGLTextures runs while fewer texture names than this exist
MaxTextureNames == 22

(***************************************************************************)
(* glm: vectors and 4x4 matrices (row i, column j), as the library         *)
(* computes them                                                           *)
(***************************************************************************)
\* the element of a one-element set: The({F(x) : x \in {e}}) is F(e) with e evaluated
\* once
The(S) == CHOOSE x \in S : TRUE

Identity4 ==
    << <<1000, 0, 0, 0>>, <<0, 1000, 0, 0>>, <<0, 0, 1000, 0>>, <<0, 0, 0, 1000>> >>

ZeroMat4 == << <<0, 0, 0, 0>>, <<0, 0, 0, 0>>, <<0, 0, 0, 0>>, <<0, 0, 0, 0>> >>

\* a product of two numbers in thousandths, back in thousandths (nearest)
Rescale(n) == (n + 500) \div 1000

\* operator* of glm::mat4
MatEntry(A, B, i, j) ==
    Rescale(A[i][1] * B[1][j] + A[i][2] * B[2][j] + A[i][3] * B[3][j] + A[i][4] * B[4][j])

MatRow(A, B, i) ==
    << MatEntry(A, B, i, 1), MatEntry(A, B, i, 2), MatEntry(A, B, i, 3), MatEntry(A, B, i, 4) >>

MatProduct(A, B) == << MatRow(A, B, 1), MatRow(A, B, 2), MatRow(A, B, 3), MatRow(A, B, 4) >>

MatMul(A, B) == The({MatProduct(a, b) : a \in {A}, b \in {B}})

\* glm::scale(v): diag(v.x, v.y, v.z, 1)
GlmScale(v) ==
    << <<v[1], 0, 0, 0>>, <<0, v[2], 0, 0>>, <<0, 0, v[3], 0>>, <<0, 0, 0, 1000>> >>

\* glm::translate(v): the identity with v in the fourth column
GlmTranslate(v) ==
    << <<1000, 0, 0, v[1]>>, <<0, 1000, 0, v[2]>>, <<0, 0, 1000, v[3]>>, <<0, 0, 0, 1000>> >>

\* glm::radians(degrees) = degrees * pi / 180: thousandths of a degree to milliradians
\* (nearest), whole degrees and the fraction converted apart to stay within 32 bits
GlmRadians(degrees) ==
    LET whole == degrees \div 1000
        fraction == degrees % 1000
    IN (whole * 3141593 + (fraction * 31416) \div 10 + 90000) \div 180000

\* the whole number of quarter turns nearest to an angle in milliradians
QuarterTurnCount(mrad) == (mrad * 1000 + 785398) \div 1570796

QuarterTurns(mrad) == QuarterTurnCount(mrad) % 4

\* what is left of the angle beyond its nearest quarter turn: within +-786 milliradians
Residual(mrad) == mrad - (QuarterTurnCount(mrad) * 1570796 + 500) \div 1000

\* cos r = 1 - r^2/2 + r^4/24 - r^6/720 for a residual r, in thousandths
CosSmall(r) ==
    LET r2 == (r * r) \div 1000
    IN 1000 - (r2 + 1) \div 2 + (r2 * r2 + 12000) \div 24000
            - (((r2 * r2) \div 1000) * r2) \div 720000

\* sin r = r - r^3/6 + r^5/120 for a residual r, in thousandths
SinSmall(r) ==
    LET r2 == (r * r) \div 1000
        r3 == (r2 * r) \div 1000
        r5 == (r3 * r2) \div 1000
    IN r - r3 \div 6 + r5 \div 120

\* cos and sin of an angle in milliradians, in thousandths: exact on quarter turns
Cos(mrad) ==
    LET q == QuarterTurns(mrad)
        r == Residual(mrad)
    IN CASE q = 0 -> CosSmall(r)
         [] q = 1 -> 0 - SinSmall(r)
         [] q = 2 -> 0 - CosSmall(r)
         [] q = 3 -> SinSmall(r)

Sin(mrad) ==
    LET q == QuarterTurns(mrad)
        r == Residual(mrad)
    IN CASE q = 0 -> SinSmall(r)
         [] q = 1 -> CosSmall(r)
         [] q = 2 -> 0 - SinSmall(r)
         [] q = 3 -> 0 - CosSmall(r)

\* glm::rotate(angle, axis) for a unit axis: Rodrigues' rotation matrix
RotationMatrix(c, s, axis) ==
    LET t == 1000 - c
        x == axis[1]
        y == axis[2]
        z == axis[3]
    IN << << c + x * x * t,     x * y * t - z * s, x * z * t + y * s, 0 >>,
          << y * x * t + z * s, c + y * y * t,     y * z * t - x * s, 0 >>,
          << z * x * t - y * s, z * y * t + x * s, c + z * z * t,     0 >>,
          << 0, 0, 0, 1000 >> >>

GlmRotate(angle, axis) ==
    The({RotationMatrix(c, s, axis) : c \in {Cos(angle)}, s \in {Sin(angle)}})

(***************************************************************************)
(* Events and results.  Every method of the SceneManager is an operator    *)
(* that yields the events it issues, in order, and the fault (if any) that *)
(* cut it short.  Lookups read the registries; no Set* method writes them. *)
(***************************************************************************)
\* ShaderManager::set*Value(name, value)
Uniform(name, value) == [kind |-> "uniform", name |-> name, value |-> value]

\* ShapeMeshes::Draw<mesh>Mesh(args...)
MeshDraw(mesh, args) == [kind |-> "draw", mesh |-> mesh, args |-> args]

Returned(events) == [events |-> events, fault |-> "none"]

Faulted(events, f) == [events |-> events, fault |-> f]

\* statement sequencing on results: the second counts only if the first returned
ThenResult(first, second) ==
    IF first.fault # "none" THEN first
    ELSE [events |-> first.events \o second.events, fault |-> second.fault]

\* statement sequencing: r2 runs only if r1 returned
Then(r1, r2) == The({ThenResult(first, second) : first \in {r1}, second \in {r2}})

\* the uniforms after the writes among the events, applied in order: each uniform
\* written holds the value of the last write to it
WritesTo(events, name) ==
    {k \in 1..Len(events) : events[k].kind = "uniform" /\ events[k].name = name}

LastWriteTo(events, name) ==
    The({CHOOSE k \in writes : \A other \in writes : other <= k :
            writes \in {WritesTo(events, name)}})

ApplyWrites(u, events) ==
    The({[name \in DOMAIN u \cup written |->
             IF name \in written THEN events[LastWriteTo(events, name)].value ELSE u[name]] :
         written \in {{events[k].name :
                          k \in {i \in 1..Len(events) : events[i].kind = "uniform"}}}})

(***************************************************************************)
(* SetTransformations / DrawMeshTransformation                             *)
(***************************************************************************)
\* a slip in the factor order: translation * rotationZ * rotationY * rotationX * scale
ModelViewZYX(scaleXYZ, XrotationDegrees, YrotationDegrees, ZrotationDegrees, positionXYZ) ==
    LET scale == GlmScale(scaleXYZ)
        rotationX == GlmRotate(GlmRadians(XrotationDegrees), <<1, 0, 0>>)
        rotationY == GlmRotate(GlmRadians(YrotationDegrees), <<0, 1, 0>>)
        rotationZ == GlmRotate(GlmRadians(ZrotationDegrees), <<0, 0, 1>>)
        translation == GlmTranslate(positionXYZ)
    IN MatMul(MatMul(MatMul(MatMul(translation, rotationZ), rotationY), rotationX), scale)

\* modelView = translation * rotationX * rotationY * rotationZ * scale
ModelView(scaleXYZ, XrotationDegrees, YrotationDegrees, ZrotationDegrees, positionXYZ) ==
    LET scale == GlmScale(scaleXYZ)
        rotationX == GlmRotate(GlmRadians(XrotationDegrees), <<1, 0, 0>>)
        rotationY == GlmRotate(GlmRadians(YrotationDegrees), <<0, 1, 0>>)
        rotationZ == GlmRotate(GlmRadians(ZrotationDegrees), <<0, 0, 1>>)
        translation == GlmTranslate(positionXYZ)
    IN MatMul(MatMul(MatMul(MatMul(translation, rotationX), rotationY), rotationZ), scale)

SetTransformations(scaleXYZ, XrotationDegrees, YrotationDegrees, ZrotationDegrees, positionXYZ) ==
    IF m_pShaderManager # "NULL"
    THEN Returned(<< Uniform("model",
            ModelView(scaleXYZ, XrotationDegrees, YrotationDegrees, ZrotationDegrees, positionXYZ)) >>)
    ELSE Returned(<< >>)

\* the static methods of ShapeMeshWrappers, by name: the draw each one issues
ShapeMeshWrapper(drawMeshFunction) ==
    CASE drawMeshFunction = "DrawBoxMeshWrapper" -> << MeshDraw("Box", << >>) >>
      [] drawMeshFunction = "DrawConeMeshWrapper" -> << MeshDraw("Cone", << >>) >>
      [] drawMeshFunction = "DrawCylinderMeshWrapper" -> << MeshDraw("Cylinder", << >>) >>
      [] drawMeshFunction = "DrawHollowCylinderMeshWrapper" ->
            << MeshDraw("Cylinder", <<FALSE, FALSE>>) >>
      [] drawMeshFunction = "DrawNoSideCylinderMeshWrapper" ->
            << MeshDraw("Cylinder", <<TRUE, TRUE, FALSE>>) >>
      [] drawMeshFunction = "DrawPlaneMeshWrapper" -> << MeshDraw("Plane", << >>) >>
      [] drawMeshFunction = "DrawPrismMeshWrapper" -> << MeshDraw("Prism", << >>) >>
      [] drawMeshFunction = "DrawPyramid3MeshWrapper" -> << MeshDraw("Pyramid3", << >>) >>
      [] drawMeshFunction = "DrawPyramid4MeshWrapper" -> << MeshDraw("Pyramid4", << >>) >>
      [] drawMeshFunction = "DrawSphereMeshWrapper" -> << MeshDraw("Sphere", << >>) >>
      [] drawMeshFunction = "DrawHalfSphereMeshWrapper" -> << MeshDraw("HalfSphere", << >>) >>
      [] drawMeshFunction = "DrawTaperedCylinderMeshWrapper" ->
            << MeshDraw("TaperedCylinder", << >>) >>
      [] drawMeshFunction = "DrawTorusMeshWrapper" -> << MeshDraw("Torus", << >>) >>
      [] drawMeshFunction = "DrawHalfTorusMeshWrapper" -> << MeshDraw("HalfTorus", << >>) >>
      [] drawMeshFunction = "DrawNone" -> << >>

\* a slip in the statement order: the mesh is drawn before the model matrix is uploaded
DrawMeshTransformationDrawsFirst(scaleXYZ, rotationDegreesXYZ, positionXYZ, drawMeshFunction) ==
    Then(Returned(ShapeMeshWrapper(drawMeshFunction)),
         SetTransformations(scaleXYZ,
                            rotationDegreesXYZ[1],
                            rotationDegreesXYZ[2],
                            rotationDegreesXYZ[3],
                            positionXYZ))

\* a slip in the argument order: the position is passed as the scale and the scale as
\* the position
DrawMeshTransformationSwapped(scaleXYZ, rotationDegreesXYZ, positionXYZ, drawMeshFunction) ==
    Then(SetTransformations(positionXYZ,
                            rotationDegreesXYZ[1],
                            rotationDegreesXYZ[2],
                            rotationDegreesXYZ[3],
                            scaleXYZ),
         Returned(ShapeMeshWrapper(drawMeshFunction)))

DrawMeshTransformation(scaleXYZ, rotationDegreesXYZ, positionXYZ, drawMeshFunction) ==
    Then(SetTransformations(scaleXYZ,
                            rotationDegreesXYZ[1],
                            rotationDegreesXYZ[2],
                            rotationDegreesXYZ[3],
                            positionXYZ),
         Returned(ShapeMeshWrapper(drawMeshFunction)))

(***************************************************************************)
(* Texture registry: CreateGLTexture, FindTextureID, FindTextureSlot       *)
(***************************************************************************)
\* the value of an int or float the program never initialised
Indeterminate == "indeterminate"

\* glGenTextures(1, &id): an unused texture name
GlGenTexture(g) == Cardinality(g.textures) + 1

\* glBindTexture(GL_TEXTURE_2D, id): binds on the active texture unit
GlBindTexture(g, id) == [g EXCEPT !.units[g.activeTexture] = id]

\* a slip in the failure path: an image with an unsupported channel count is registered
\* before false is returned
CreateGLTextureRegistersFailure(R, image, tag) ==
    IF image.pixels /\ R.m_loadedTextures \in 0..(TextureSlots - 1)
    THEN LET textureID == GlGenTexture(R.gl)
             bound == GlBindTexture([R.gl EXCEPT !.textures = @ \cup {textureID}], textureID)
         IN [ret |-> image.colorChannels \in {3, 4}, fault |-> "none",
             R |-> [R EXCEPT !.gl = bound,
                             !.m_textureIDs[R.m_loadedTextures] =
                                 [tag |-> tag, ID |-> textureID],
                             !.m_loadedTextures = @ + 1,
                             !.loadOrder = Append(@, tag)]]
    ELSE [ret |-> FALSE, fault |-> "none", R |-> R]

\* CreateGLTexture on the registry R = [m_loadedTextures, m_textureIDs, gl, loadOrder],
\* where image is what stbi_load returned: [pixels, colorChannels]
CreateGLTexture(R, image, tag) ==
    IF image.pixels
    THEN LET textureID == GlGenTexture(R.gl)
             bound == GlBindTexture([R.gl EXCEPT !.textures = @ \cup {textureID},
                                                 !.images = @ + 1],
                                    textureID)
         IN IF image.colorChannels \notin {3, 4}
            THEN \* return false: the image is not freed, the texture stays bound
                 [ret |-> FALSE, fault |-> "none", R |-> [R EXCEPT !.gl = bound]]
            ELSE LET freed == GlBindTexture([bound EXCEPT !.images = @ - 1], 0)
                 IN IF R.m_loadedTextures \notin 0..(TextureSlots - 1)
                    THEN \* m_textureIDs[m_loadedTextures] is outside the array
                         [ret |-> FALSE, fault |-> "out_of_bounds",
                          R |-> [R EXCEPT !.gl = freed]]
                    ELSE [ret |-> TRUE, fault |-> "none",
                          R |-> [R EXCEPT
                                   !.gl = freed,
                                   !.m_textureIDs[R.m_loadedTextures] =
                                       [tag |-> tag, ID |-> textureID],
                                   !.m_loadedTextures = @ + 1,
                                   !.loadOrder = Append(@, tag)]]
    ELSE [ret |-> FALSE, fault |-> "none", R |-> R]

\* the while loop of FindTextureID / FindTextureSlot from index on: the index found
\* (-1 if none), or the fault of reading past the array
RECURSIVE FindTextureLoop(_, _)
FindTextureLoop(tag, index) ==
    IF ~(index < m_loadedTextures) THEN [index |-> -1, fault |-> "none"]
    ELSE IF index \notin 0..(TextureSlots - 1) THEN [index |-> -1, fault |-> "out_of_bounds"]
    ELSE IF m_textureIDs[index].tag = tag THEN [index |-> index, fault |-> "none"]
    ELSE FindTextureLoop(tag, index + 1)

FindTextureID(tag) ==
    LET found == FindTextureLoop(tag, 0)
    IN [ret |-> IF found.index = -1 THEN -1 ELSE m_textureIDs[found.index].ID,
        fault |-> found.fault]

\* a slip in the slot numbering: positions counted from one
FindTextureSlotOneBased(tag) ==
    LET found == FindTextureLoop(tag, 0)
    IN [ret |-> IF found.index = -1 THEN -1 ELSE found.index + 1, fault |-> found.fault]

FindTextureSlot(tag) ==
    The({[ret |-> found.index, fault |-> found.fault] : found \in {FindTextureLoop(tag, 0)}})

(***************************************************************************)
(* Texture units and scene textures: BindGLTextures, DestroyGLTextures,    *)
(* LoadSceneTextures.  A registry operation yields the events it issues,   *)
(* the fault (if any) that cut it short, and the registry R it leaves.     *)
(***************************************************************************)
\* CreateGLTexture(filename, tag) was called and returned ret
TextureLoad(tag, ret) == [kind |-> "load", tag |-> tag, ret |-> ret]

\* glActiveTexture(GL_TEXTURE0 + unit); glBindTexture(GL_TEXTURE_2D, ID)
TextureBind(unit, ID) == [kind |-> "bind", unit |-> unit, ID |-> ID]

\* the for loop of BindGLTextures from i on
RECURSIVE BindGLTexturesLoop(_, _, _)
BindGLTexturesLoop(R, events, i) ==
    IF ~(i < R.m_loadedTextures) THEN [events |-> events, fault |-> "none", R |-> R]
    ELSE IF i \notin 0..(TextureSlots - 1)
    THEN \* m_textureIDs[i] is outside the array
         [events |-> events, fault |-> "out_of_bounds", R |-> R]
    ELSE LET ID == R.m_textureIDs[i].ID
             active == [R.gl EXCEPT !.activeTexture = i]
         IN BindGLTexturesLoop([R EXCEPT !.gl = GlBindTexture(active, ID)],
                               Append(events, TextureBind(i, ID)), i + 1)

\* a slip in the loop bounds: the units are bound from the second entry on
BindGLTexturesFromOne(R) == BindGLTexturesLoop(R, << >>, 1)

BindGLTextures(R) == BindGLTexturesLoop(R, << >>, 0)

\* the for loop of DestroyGLTextures from i on: glGenTextures(1, &m_textureIDs[i].ID)
\* generates one more texture name and stores it over the entry's ID
RECURSIVE DestroyGLTexturesLoop(_, _)
DestroyGLTexturesLoop(R, i) ==
    IF ~(i < R.m_loadedTextures) THEN [events |-> << >>, fault |-> "none", R |-> R]
    ELSE IF i \notin 0..(TextureSlots - 1)
    THEN [events |-> << >>, fault |-> "out_of_bounds", R |-> R]
    ELSE LET textureID == GlGenTexture(R.gl)
         IN DestroyGLTexturesLoop(
                [R EXCEPT !.gl.textures = @ \cup {textureID},
                          !.m_textureIDs[i].ID = textureID],
                i + 1)

DestroyGLTextures(R) == DestroyGLTexturesLoop(R, 0)

\* a slip in a tag: the inner cucumber texture is registered under a misspelt name
SceneTexturesInnerMisnamed ==
    << [filename |-> "tile.jpg", tag |-> "backdrop"],
       [filename |-> "counter.jpg", tag |-> "counter"],
       [filename |-> "knife_handle.jpg", tag |-> "wood"],
       [filename |-> "metal.jpg", tag |-> "metal"],
       [filename |-> "marble.jpg", tag |-> "marble"],
       [filename |-> "drywall.jpg", tag |-> "plastic"],
       [filename |-> "cucumber_outer.jpeg", tag |-> "cucumber_outer"],
       [filename |-> "cucumber_inner.jpg", tag |-> "cucumber_iner"],
       [filename |-> "glass10.png", tag |-> "glass10"],
       [filename |-> "glass13.png", tag |-> "glass13"] >>

\* the ten CreateGLTexture calls of LoadSceneTextures, in order
SceneTextures ==
    << [filename |-> "tile.jpg", tag |-> "backdrop"],
       [filename |-> "counter.jpg", tag |-> "counter"],
       [filename |-> "knife_handle.jpg", tag |-> "wood"],
       [filename |-> "metal.jpg", tag |-> "metal"],
       [filename |-> "marble.jpg", tag |-> "marble"],
       [filename |-> "drywall.jpg", tag |-> "plastic"],
       [filename |-> "cucumber_outer.jpeg", tag |-> "cucumber_outer"],
       [filename |-> "cucumber_inner.jpg", tag |-> "cucumber_inner"],
       [filename |-> "glass10.png", tag |-> "glass10"],
       [filename |-> "glass13.png", tag |-> "glass13"] >>

\* the CreateGLTexture calls of LoadSceneTextures from the k-th on; files maps a
\* filename to what stbi_load returns for it; bReturn is assigned and never read
RECURSIVE LoadSceneTexturesFrom(_, _, _, _)
LoadSceneTexturesFrom(R, files, events, k) ==
    IF k > Len(SceneTextures) THEN [events |-> events, fault |-> "none", R |-> R]
    ELSE The({IF bReturn.fault # "none"
              THEN [events |-> events, fault |-> bReturn.fault, R |-> bReturn.R]
              ELSE LoadSceneTexturesFrom(
                       bReturn.R, files,
                       Append(events, TextureLoad(SceneTextures[k].tag, bReturn.ret)),
                       k + 1) :
              bReturn \in {CreateGLTexture(R, files[SceneTextures[k].filename],
                                           SceneTextures[k].tag)}})

LoadSceneTextures(R, files) ==
    The({IF loaded.fault # "none" THEN loaded
         ELSE The({[events |-> loaded.events \o bound.events, fault |-> bound.fault,
                    R |-> bound.R] : bound \in {BindGLTextures(loaded.R)}}) :
         loaded \in {LoadSceneTexturesFrom(R, files, << >>, 1)}})

(***************************************************************************)
(* Material registry: DefineObjectMaterials, FindMaterial                  *)
(***************************************************************************)
Material(tag, ambientColor, ambientStrength, diffuseColor, specularColor, shininess) ==
    [tag |-> tag, ambientColor |-> ambientColor, ambientStrength |-> ambientStrength,
     diffuseColor |-> diffuseColor, specularColor |-> specularColor,
     shininess |-> shininess]

\* the six materials DefineObjectMaterials pushes, in order
SceneMaterials ==
    << Material("glass", <<400, 400, 400>>, 150, <<320, 320, 300>>, <<600, 600, 600>>, 75000),
       Material("wood", <<250, 220, 200>>, 200, <<250, 200, 150>>, <<200, 200, 200>>, 5000),
       Material("plastic", <<200, 200, 230>>, 150, <<250, 255, 280>>, <<320, 320, 300>>, 7000),
       Material("stone", <<390, 370, 350>>, 250, <<400, 370, 350>>, <<270, 300, 330>>, 2000),
       Material("metal", <<230, 230, 210>>, 400, <<300, 300, 250>>, <<450, 450, 450>>, 25000),
       Material("organic", <<250, 280, 250>>, 150, <<300, 340, 300>>, <<350, 350, 300>>, 12000) >>

DefineObjectMaterials(materials) == materials \o SceneMaterials

\* what a local OBJECT_MATERIAL may hold before anything is assigned to it: the
\* std::string is empty, the floats are whatever the stack held
UninitMaterials ==
    { Material("", <<0, 0, 0>>, 0, <<0, 0, 0>>, <<0, 0, 0>>, 0),
      Material("", <<-1, 7, 7>>, 7, <<7, -1, 7>>, <<7, 7, -1>>, -1) }

\* the while loop of FindMaterial from index (0-based) on: the material output
RECURSIVE FindMaterialLoop(_, _, _)
FindMaterialLoop(tag, material, index) ==
    IF ~(index < Len(m_objectMaterials)) THEN material
    ELSE IF m_objectMaterials[index + 1].tag = tag
    THEN [material EXCEPT
            !.ambientColor = m_objectMaterials[index + 1].ambientColor,
            !.ambientStrength = m_objectMaterials[index + 1].ambientStrength,
            !.diffuseColor = m_objectMaterials[index + 1].diffuseColor,
            !.specularColor = m_objectMaterials[index + 1].specularColor,
            !.shininess = m_objectMaterials[index + 1].shininess]
    ELSE FindMaterialLoop(tag, material, index + 1)

\* FindMaterial(tag, material&): the bool returned and the material left in the argument
FindMaterial(tag, material) ==
    IF Len(m_objectMaterials) = 0
    THEN [ret |-> FALSE, material |-> material]
    ELSE [ret |-> TRUE, material |-> FindMaterialLoop(tag, material, 0)]

(***************************************************************************)
(* Shader attributes: SetShaderColor, SetShaderTexture, SetTextureUVScale, *)
(* SetShaderMaterial, SetShaderAttributes                                  *)
(***************************************************************************)
\* a slip in the colour step: the texture flag is left as it was
SetShaderColorKeepsFlag(redColorValue, greenColorValue, blueColorValue, alphaValue) ==
    LET currentColor == <<redColorValue, greenColorValue, blueColorValue, alphaValue>>
    IN IF m_pShaderManager # "NULL"
       THEN Returned(<< Uniform("objectColor", currentColor) >>)
       ELSE Returned(<< >>)

SetShaderColor(redColorValue, greenColorValue, blueColorValue, alphaValue) ==
    LET currentColor == <<redColorValue, greenColorValue, blueColorValue, alphaValue>>
    IN IF m_pShaderManager # "NULL"
       THEN Returned(<< Uniform("bUseTexture", 0), Uniform("objectColor", currentColor) >>)
       ELSE Returned(<< >>)

\* a slip in the texture step: it also puts the UV scale back to (1, 1)
SetShaderTextureResetsUV(textureTag) ==
    IF m_pShaderManager # "NULL"
    THEN The({IF textureID.fault # "none"
              THEN Faulted(<< Uniform("bUseTexture", 1) >>, textureID.fault)
              ELSE Returned(<< Uniform("bUseTexture", 1),
                               Uniform("objectTexture", textureID.ret),
                               Uniform("UVscale", <<1000, 1000>>) >>) :
              textureID \in {FindTextureSlot(textureTag)}})
    ELSE Returned(<< >>)

SetShaderTexture(textureTag) ==
    IF m_pShaderManager # "NULL"
    THEN The({IF textureID.fault # "none"
              THEN Faulted(<< Uniform("bUseTexture", 1) >>, textureID.fault)
              ELSE Returned(<< Uniform("bUseTexture", 1),
                               Uniform("objectTexture", textureID.ret) >>) :
              textureID \in {FindTextureSlot(textureTag)}})
    ELSE Returned(<< >>)

\* a slip in the UV scale: u and v are exchanged
SetTextureUVScaleSwapped(u, v) ==
    IF m_pShaderManager # "NULL"
    THEN Returned(<< Uniform("UVscale", <<v, u>>) >>)
    ELSE Returned(<< >>)

SetTextureUVScale(u, v) ==
    IF m_pShaderManager # "NULL"
    THEN Returned(<< Uniform("UVscale", <<u, v>>) >>)
    ELSE Returned(<< >>)

\* the five setVec3Value / setFloatValue calls of SetShaderMaterial
MaterialWrites(material) ==
    Returned(<< Uniform("material.ambientColor", material.ambientColor),
                Uniform("material.ambientStrength", material.ambientStrength),
                Uniform("material.diffuseColor", material.diffuseColor),
                Uniform("material.specularColor", material.specularColor),
                Uniform("material.shininess", material.shininess) >>)

\* uninit: what the local 'material' holds before FindMaterial is called
SetShaderMaterial(materialTag, uninit) ==
    IF Len(m_objectMaterials) > 0
    THEN The({IF found.ret = TRUE
              THEN IF m_pShaderManager = "NULL"
                   THEN \* m_pShaderManager->setVec3Value(...) through the null pointer
                        Faulted(<< >>, "null_dereference")
                   ELSE MaterialWrites(found.material)
              ELSE Returned(<< >>) :
              found \in {FindMaterial(materialTag, uninit)}})
    ELSE Returned(<< >>)

\* a slip in the composition: the UV scale is written only with a texture
SetShaderAttributesUVWithTexture(colorRGBA, texture, UVscale, material, uninit) ==
    Then(Then(SetShaderColor(colorRGBA[1], colorRGBA[2], colorRGBA[3], colorRGBA[4]),
              IF texture # "none"
              THEN Then(SetShaderTexture(texture), SetTextureUVScale(UVscale[1], UVscale[2]))
              ELSE Returned(<< >>)),
         IF material # "none" THEN SetShaderMaterial(material, uninit) ELSE Returned(<< >>))

\* a slip in the attribute bundle: the UV scale is left as it was
SetShaderAttributesKeepsUV(colorRGBA, texture, UVscale, material, uninit) ==
    Then(Then(SetShaderColor(colorRGBA[1], colorRGBA[2], colorRGBA[3], colorRGBA[4]),
              IF texture # "none" THEN SetShaderTexture(texture) ELSE Returned(<< >>)),
         IF material # "none" THEN SetShaderMaterial(material, uninit) ELSE Returned(<< >>))

SetShaderAttributes(colorRGBA, texture, UVscale, material, uninit) ==
    Then(Then(Then(SetShaderColor(colorRGBA[1], colorRGBA[2], colorRGBA[3], colorRGBA[4]),
                   IF texture # "none" THEN SetShaderTexture(texture) ELSE Returned(<< >>)),
              SetTextureUVScale(UVscale[1], UVscale[2])),
         IF material # "none" THEN SetShaderMaterial(material, uninit) ELSE Returned(<< >>))

(***************************************************************************)
(* Scene setup: SetupSceneLights, the mesh loads, PrepareScene             *)
(***************************************************************************)
\* m_objectMaterials.push_back(material)
MaterialPush(tag) == [kind |-> "material", tag |-> tag]

\* m_basicMeshes->Load<mesh>Mesh()
MeshLoad(mesh) == [kind |-> "loadmesh", mesh |-> mesh]

\* the three light sources SetupSceneLights writes, in order
SceneLights ==
    << [position |-> <<-6700, 5500, 1000>>, ambientColor |-> <<30, 10, 10>>,
        diffuseColor |-> <<320, 320, 300>>, specularColor |-> <<400, 400, 390>>,
        focalStrength |-> 45000, specularIntensity |-> 50],
       [position |-> <<8000, 6500, 500>>, ambientColor |-> <<30, 20, 10>>,
        diffuseColor |-> <<300, 300, 300>>, specularColor |-> <<400, 400, 400>>,
        focalStrength |-> 70000, specularIntensity |-> 200],
       [position |-> <<0, 15000, 0>>, ambientColor |-> <<300, 250, 250>>,
        diffuseColor |-> <<0, 0, 0>>, specularColor |-> <<0, 0, 0>>,
        focalStrength |-> 10, specularIntensity |-> 10] >>

\* the names of the uniforms of light source i (0-based), in the order written
LightUniforms(i) ==
    LET light == CASE i = 0 -> "lightSources[0]"
                   [] i = 1 -> "lightSources[1]"
                   [] i = 2 -> "lightSources[2]"
    IN [position |-> light \o ".position", ambientColor |-> light \o ".ambientColor",
        diffuseColor |-> light \o ".diffuseColor",
        specularColor |-> light \o ".specularColor",
        focalStrength |-> light \o ".focalStrength",
        specularIntensity |-> light \o ".specularIntensity"]

LightWrites(i) ==
    LET n == LightUniforms(i)
        l == SceneLights[i + 1]
    IN << Uniform(n.position, l.position), Uniform(n.ambientColor, l.ambientColor),
          Uniform(n.diffuseColor, l.diffuseColor),
          Uniform(n.specularColor, l.specularColor),
          Uniform(n.focalStrength, l.focalStrength),
          Uniform(n.specularIntensity, l.specularIntensity) >>

\* SetupSceneLights uses m_pShaderManager without testing it
SetupSceneLights ==
    IF m_pShaderManager = "NULL"
    THEN Faulted(<< >>, "null_dereference")
    ELSE Returned(<< Uniform("bUseLighting", 1) >>
                  \o LightWrites(0) \o LightWrites(1) \o LightWrites(2))

\* a slip in the list: the second plane load stands where the prism load should be
SceneMeshLoadsPrismMissing ==
    << "Plane", "Cylinder", "Sphere", "Torus", "TaperedCylinder", "Box", "Pyramid3",
       "Pyramid4", "Cone", "Plane" >>

\* the Load<mesh>Mesh calls of PrepareScene, in order: the plane is loaded twice
SceneMeshLoads ==
    << "Plane", "Cylinder", "Sphere", "Torus", "TaperedCylinder", "Box", "Pyramid3",
       "Pyramid4", "Cone", "Plane", "Prism" >>

\* ShapeMeshes::Load<mesh>Mesh(): the mesh kind becomes drawable; loading a kind again
\* changes nothing
LoadMesh(g, mesh) == [g EXCEPT !.meshes = @ \cup {mesh}]

RECURSIVE LoadMeshes(_, _, _)
LoadMeshes(g, meshes, k) ==
    IF k > Len(meshes) THEN g ELSE LoadMeshes(LoadMesh(g, meshes[k]), meshes, k + 1)

\* a slip in the call order: the lights are set up before the materials are defined
PrepareSceneLightsFirst(R, files) ==
    LET materials == DefineObjectMaterials(m_objectMaterials)
        pushes == [k \in 1..Len(SceneMaterials) |-> MaterialPush(SceneMaterials[k].tag)]
        lights == SetupSceneLights
        loads == [k \in 1..Len(SceneMeshLoads) |-> MeshLoad(SceneMeshLoads[k])]
    IN The({IF textures.fault # "none" \/ lights.fault # "none"
            THEN [events |-> textures.events,
                  fault |-> IF textures.fault # "none" THEN textures.fault
                            ELSE lights.fault,
                  R |-> textures.R, m_objectMaterials |-> m_objectMaterials]
            ELSE [events |-> textures.events \o lights.events \o pushes \o loads,
                  fault |-> "none",
                  R |-> [textures.R EXCEPT !.gl = LoadMeshes(@, SceneMeshLoads, 1)],
                  m_objectMaterials |-> materials] :
            textures \in {LoadSceneTextures(R, files)}})

\* PrepareScene on the registry R: the events, the fault, the registry and the
\* material list it leaves
PrepareScene(R, files) ==
    LET materials == DefineObjectMaterials(m_objectMaterials)
        pushes == [k \in 1..Len(SceneMaterials) |-> MaterialPush(SceneMaterials[k].tag)]
        lights == SetupSceneLights
        loads == [k \in 1..Len(SceneMeshLoads) |-> MeshLoad(SceneMeshLoads[k])]
    IN The({IF textures.fault # "none"
            THEN [events |-> textures.events, fault |-> textures.fault,
                  R |-> textures.R, m_objectMaterials |-> m_objectMaterials]
            ELSE IF lights.fault # "none"
            THEN [events |-> textures.events \o pushes \o lights.events,
                  fault |-> lights.fault, R |-> textures.R,
                  m_objectMaterials |-> materials]
            ELSE [events |-> textures.events \o pushes \o lights.events \o loads,
                  fault |-> "none",
                  R |-> [textures.R EXCEPT !.gl = LoadMeshes(@, SceneMeshLoads, 1)],
                  m_objectMaterials |-> materials] :
            textures \in {LoadSceneTextures(R, files)}})

(***************************************************************************)
(* The compound objects and RenderScene.  A body is a sequence of          *)
(* statements; uninit is what an uninitialised local material holds.       *)
(***************************************************************************)
\* the results among the first n whose statements run: those up to the first fault
RECURSIVE EventsOf(_, _)
EventsOf(results, n) ==
    IF n = 0 THEN << >> ELSE EventsOf(results, n - 1) \o results[n].events

\* the results of the statements, run in order until one faults
StatementsFrom(results) ==
    LET faulted == {k \in 1..Len(results) : results[k].fault # "none"}
        last == IF faulted = {} THEN Len(results)
                ELSE CHOOSE k \in faulted : \A other \in faulted : k <= other
    IN [events |-> EventsOf(results, last),
        fault |-> IF faulted = {} THEN "none" ELSE results[last].fault]

\* a slip in running a body: its last statement is left out
StatementsButLast(statements) ==
    The({StatementsFrom(SubSeq(results, 1, Len(results) - 1)) : results \in {statements}})

Statements(statements) == The({StatementsFrom(results) : results \in {statements}})

\* m_basicMeshes->DrawCylinderMesh(bDrawTop, bDrawBottom, bDrawSides), called directly
DrawCylinderMesh(bDrawTop, bDrawBottom, bDrawSides) ==
    Returned(<< MeshDraw("Cylinder", <<bDrawTop, bDrawBottom, bDrawSides>>) >>)

DrawJar(x, y, z, uninit) ==
    LET color == <<700, 700, 900, 800>>
        baseTexture == "glass13"
        lidTexture == "glass10"
        baseUV == <<1000, 350>>
        material == "glass"
        sphere == "DrawSphereMeshWrapper"
        cylinder == "DrawCylinderMeshWrapper"
        torus == "DrawTorusMeshWrapper"
    IN Statements(<<
        SetShaderAttributes(color, baseTexture, baseUV, material, uninit),
        \* jar base
        DrawMeshTransformation(<<2000, 300, 2000>>, <<0, 0, 0>>,
                               <<x + 0, y + 150, z + 0>>, sphere),
        \* jar body
        DrawMeshTransformation(<<2000, 4050, 2000>>, <<0, 0, 0>>,
                               <<x + 0, y + 150, z + 0>>, cylinder),
        SetTextureUVScale(1000, 250),
        \* jar shoulder
        DrawMeshTransformation(<<2020, 700, 2020>>, <<0, -10000, 0>>,
                               <<x + 0, y + 4200, z + 0>>, sphere),
        SetTextureUVScale(800, 100),
        \* jar neck
        DrawMeshTransformation(<<1600, 800, 1600>>, <<0, 8000, 0>>,
                               <<x + 0, y + 4400, z + 0>>, cylinder),
        SetTextureUVScale(1500, 300),
        \* jar rim
        DrawMeshTransformation(<<1480, 1480, 650>>, <<90000, 0, 0>>,
                               <<x + 0, y + 5100, z + 0>>, torus),
        SetShaderTexture(lidTexture),
        SetTextureUVScale(2000, 1000),
        \* lid rim and top
        DrawMeshTransformation(<<1500, 1500, 500>>, <<90000, 0, 0>>,
                               <<x + 0, y + 5250, z + 0>>, torus),
        DrawMeshTransformation(<<1600, 160, 1600>>, <<0, 0, 0>>,
                               <<x + 0, y + 5250, z + 0>>, sphere),
        SetTextureUVScale(2000, 1000),
        \* lid handle
        DrawMeshTransformation(<<900, 500, 900>>, <<0, 0, 0>>,
                               <<x + 0, y + 5200, z + 0>>, cylinder),
        SetTextureUVScale(1500, 1000),
        DrawMeshTransformation(<<1100, 1100, 500>>, <<90000, 0, 0>>,
                               <<x + 0, y + 5700, z + 0>>, torus),
        DrawMeshTransformation(<<1100, 200, 1100>>, <<0, 0, 0>>,
                               <<x + 0, y + 5650, z + 0>>, sphere) >>)

\* a slip in the straw's placement: a fixed place instead of one relative to the cup
DrawCupStrawFixed(x, y, z, uninit) ==
    LET color == <<600, 100, 100, 1000>>
        baseUV == <<3000, 800>>
        hollow == "DrawHollowCylinderMeshWrapper"
    IN Statements(<<
        SetShaderAttributes(color, "none", baseUV, "plastic", uninit),
        DrawMeshTransformation(<<1500, 6490, 1500>>, <<0, 0, 180000>>,
                               <<x + 0, y + 4500, z + 0>>,
                               "DrawTaperedCylinderMeshWrapper"),
        SetShaderAttributes(color, "metal", baseUV, "metal", uninit),
        DrawMeshTransformation(<<1500, 1000, 1500>>, <<0, 0, 0>>,
                               <<x + 0, y + 4500, z + 0>>, hollow),
        SetTextureUVScale(1000, 5000),
        DrawMeshTransformation(<<200, 7500, 200>>, <<14600, 0, 10500>>,
                               <<-2650, 0, -4550>>, hollow) >>)

DrawCup(x, y, z, uninit) ==
    LET color == <<600, 100, 100, 1000>>
        baseTexture == "none"
        metalTexture == "metal"
        baseUV == <<3000, 800>>
        baseMaterial == "plastic"
        metalMaterial == "metal"
        hollow == "DrawHollowCylinderMeshWrapper"
    IN Statements(<<
        SetShaderAttributes(color, baseTexture, baseUV, baseMaterial, uninit),
        DrawMeshTransformation(<<1500, 6490, 1500>>, <<0, 0, 180000>>,
                               <<x + 0, y + 4500, z + 0>>,
                               "DrawTaperedCylinderMeshWrapper"),
        SetShaderAttributes(color, metalTexture, baseUV, metalMaterial, uninit),
        DrawMeshTransformation(<<1500, 1000, 1500>>, <<0, 0, 0>>,
                               <<x + 0, y + 4500, z + 0>>, hollow),
        SetTextureUVScale(1000, 5000),
        \* straw
        DrawMeshTransformation(<<200, 7500, 200>>, <<14600, 0, 10500>>,
                               <<x + 350, y + 0, z - 350>>, hollow) >>)

\* one cucumber slice: the hollow side with the outer texture, then the caps with the
\* inner texture
\* a slip in the slice: the cap is drawn without switching to the inner texture
CucumberSliceKeepsTexture(scaleXYZ, rotationDegreesXYZ, positionXYZ, innerTexture, bDrawTop) ==
    Statements(<<
        DrawMeshTransformation(scaleXYZ, rotationDegreesXYZ, positionXYZ,
                               "DrawHollowCylinderMeshWrapper"),
        DrawCylinderMesh(bDrawTop, TRUE, FALSE) >>)

CucumberSlice(scaleXYZ, rotationDegreesXYZ, positionXYZ, innerTexture, bDrawTop) ==
    Statements(<<
        DrawMeshTransformation(scaleXYZ, rotationDegreesXYZ, positionXYZ,
                               "DrawHollowCylinderMeshWrapper"),
        SetShaderTexture(innerTexture),
        DrawCylinderMesh(bDrawTop, TRUE, FALSE) >>)

DrawCucumber(x, y, z, uninit) ==
    LET color == <<200, 500, 200, 1000>>
        outerTexture == "cucumber_outer"
        innerTexture == "cucumber_inner"
        UV == <<1000, 1000>>
        material == "organic"
    IN Statements(<<
        SetShaderAttributes(color, outerTexture, UV, material, uninit),
        \* main body
        CucumberSlice(<<700, 2800, 700>>, <<0, -25000, 90000>>,
                      <<x + 0, y + 700, z + 0>>, innerTexture, FALSE),
        SetShaderTexture(outerTexture),
        \* rounded end
        DrawMeshTransformation(<<1000, 700, 700>>, <<0, -25000, 0>>,
                               <<x - 2538, y + 700, z - 1183>>, "DrawSphereMeshWrapper"),
        \* slices
        CucumberSlice(<<700, 150, 700>>, <<0, 0, 0>>,
                      <<x + 900, y + 0, z + 200>>, innerTexture, TRUE),
        SetShaderTexture(outerTexture),
        CucumberSlice(<<700, 150, 700>>, <<-3500, 0, 0>>,
                      <<x + 1350, y + 20, z + 2000>>, innerTexture, TRUE),
        SetShaderTexture(outerTexture),
        CucumberSlice(<<750, 170, 700>>, <<0, -5000, 0>>,
                      <<x + 1300, y + 150, z + 900>>, innerTexture, TRUE),
        SetShaderTexture(outerTexture),
        CucumberSlice(<<700, 130, 650>>, <<0, -1000, -1500>>,
                      <<x + 1200, y + 300, z + 700>>, innerTexture, TRUE),
        SetShaderTexture(outerTexture),
        CucumberSlice(<<700, 200, 650>>, <<0, -1000, -3000>>,
                      <<x + 700, y + 450, z + 400>>, innerTexture, TRUE) >>)

DrawKnife(x, y, z, uninit) ==
    LET color == <<300, 300, 200, 1000>>
        handleTexture == "wood"
        bladeTexture == "metal"
        UV == <<1000, 1000>>
        handleMaterial == "wood"
        bladeMaterial == "metal"
        cylinder == "DrawCylinderMeshWrapper"
    IN Statements(<<
        SetShaderAttributes(color, bladeTexture, UV, bladeMaterial, uninit),
        SetShaderAttributes(color, handleTexture, UV, handleMaterial, uninit),
        \* handle
        DrawMeshTransformation(<<450, 2900, 350>>, <<90000, 178000, 80000>>,
                               <<x - 3000, y + 350, z + 0>>,
                               "DrawTaperedCylinderMeshWrapper"),
        SetShaderAttributes(color, bladeTexture, UV, bladeMaterial, uninit),
        \* end cap, bolster, blade
        DrawMeshTransformation(<<451, 100, 351>>, <<90000, 178000, 80000>>,
                               <<x - 3010, y + 350, z + 0>>, cylinder),
        DrawMeshTransformation(<<270, 350, 200>>, <<90000, 178000, 80000>>,
                               <<x - 400, y + 270, z + 450>>, cylinder),
        DrawMeshTransformation(<<650, 4500, 20>>, <<88000, 178000, 80000>>,
                               <<x - 50, y + 270, z + 100>>, cylinder),
        SetTextureUVScale(300, 300),
        \* tip
        DrawMeshTransformation(<<1430, 1250, 20>>, <<88000, 178000, 105000>>,
                               <<x + 4650, y + 125, z + 675>>,
                               "DrawPyramid4MeshWrapper") >>)

RenderScene(uninit) ==
    LET box == "DrawBoxMeshWrapper"
    IN Statements(<<
        \* backsplash
        SetShaderAttributes(<<300, 300, 300, 1000>>, "backdrop", <<3000, 700>>, "stone",
                            uninit),
        DrawMeshTransformation(<<22500, 1000, 3500>>, <<90000, 0, 0>>,
                               <<0, 3500, -10000>>, "DrawPlaneMeshWrapper"),
        \* shelf
        SetShaderAttributes(<<300, 300, 300, 1000>>, "wood", <<6000, 400>>, "wood", uninit),
        DrawMeshTransformation(<<45000, 1000, 3500>>, <<0, 0, 0>>, <<0, 7000, -9500>>, box),
        \* counter
        SetShaderAttributes(<<300, 300, 300, 1000>>, "counter", <<4000, 2000>>, "stone",
                            uninit),
        DrawMeshTransformation(<<45000, 2000, 13000>>, <<0, 0, 0>>, <<0, -1000, -3500>>,
                               box),
        DrawJar(6000, 0, -6200, uninit),
        DrawCup(-3000, 0, -4200, uninit),
        \* coaster
        SetShaderAttributes(<<800, 800, 800, 1000>>, "marble", <<2000, 500>>, "stone",
                            uninit),
        DrawMeshTransformation(<<1600, 300, 1600>>, <<0, 0, 0>>, <<-3000, 0, -4000>>,
                               "DrawCylinderMeshWrapper"),
        \* cutting board
        SetShaderAttributes(<<800, 800, 800, 1000>>, "plastic", <<4000, 2000>>, "plastic",
                            uninit),
        DrawMeshTransformation(<<8000, 300, 5500>>, <<0, -20000, 0>>, <<3000, 150, -1500>>,
                               box),
        DrawCucumber(3800, 300, -3000, uninit),
        DrawKnife(600, 250, -700, uninit) >>)

(***************************************************************************)
(* Initial state: SceneManager::SceneManager(pShaderManager)               *)
(***************************************************************************)
\* the constructor never assigns m_loadedTextures: its first value is whatever the
\* allocation held (negative, zero, within the table, beyond the table)
UninitLoadedTextures == {-1, 0, 1, TextureSlots + 1}

\* the uniforms of a freshly linked program are zero
InitialUniforms ==
    [n \in {"model", "objectColor", "objectTexture", "bUseTexture", "UVscale",
            "material.ambientColor", "material.ambientStrength", "material.diffuseColor",
            "material.specularColor", "material.shininess"} |->
        CASE n = "model" -> ZeroMat4
          [] n = "objectColor" -> <<0, 0, 0, 0>>
          [] n = "UVscale" -> <<0, 0>>
          [] n \in {"material.ambientColor", "material.diffuseColor",
                    "material.specularColor"} -> <<0, 0, 0>>
          [] OTHER -> 0]

Init ==
    /\ m_pShaderManager \in {"NULL", "shader"}
    /\ m_loadedTextures \in UninitLoadedTextures
    /\ m_textureIDs = [i \in 0..(TextureSlots - 1) |-> [tag |-> "", ID |-> Indeterminate]]
    /\ m_objectMaterials = << >>
    /\ gl = [textures |-> {}, images |-> 0, activeTexture |-> 0,
             units |-> [i \in 0..(TextureSlots - 1) |-> 0], meshes |-> {}]
    /\ shader = InitialUniforms
    /\ trace = << >>
    /\ call = [op |-> "SceneManager"]
    /\ loadOrder = << >>
    /\ fault = "none"
    /\ g_pCamera = [Position |-> <<2000, 5500, 9000>>, Front |-> <<0, -900, -4000>>,
                    Up |-> <<0, 1000, 0>>, Zoom |-> 60000]
    /\ bOrthographicProjection = FALSE
    /\ windowShouldClose = FALSE

(***************************************************************************)
(* Steps.  A call c whose body yields result r: its events are issued, the *)
(* uniform writes among them take effect, and a fault ends the program.    *)
(***************************************************************************)
Issue(c, r) ==
    \E result \in {r} :
        /\ trace' = result.events
        /\ shader' = ApplyWrites(shader, result.events)
        /\ fault' = result.fault
        /\ call' = IF result.fault = "none" THEN c ELSE [op |-> "fault", in |-> c.op]
        /\ UNCHANGED viewVars

Registry == [m_loadedTextures |-> m_loadedTextures, m_textureIDs |-> m_textureIDs,
             gl |-> gl, loadOrder |-> loadOrder]

CreateGLTextureCall(image, tag) ==
    /\ fault = "none"
    /\ image.pixels => Cardinality(gl.textures) < MaxLoads
    /\ LET r == CreateGLTexture(Registry, image, tag)
       IN /\ m_loadedTextures' = r.R.m_loadedTextures
          /\ m_textureIDs' = r.R.m_textureIDs
          /\ gl' = r.R.gl
          /\ loadOrder' = r.R.loadOrder
          /\ Issue([op |-> "CreateGLTexture", tag |-> tag, ret |-> r.ret],
                   [events |-> << >>, fault |-> r.fault])
    /\ UNCHANGED <<m_pShaderManager, m_objectMaterials>>

FindTextureSlotCall(tag) ==
    /\ fault = "none"
    /\ LET r == FindTextureSlot(tag)
       IN Issue([op |-> "FindTextureSlot", tag |-> tag, ret |-> r.ret],
                [events |-> << >>, fault |-> r.fault])
    /\ UNCHANGED <<m_pShaderManager, m_loadedTextures, m_textureIDs, m_objectMaterials,
                   gl, loadOrder>>

FindTextureIDCall(tag) ==
    /\ fault = "none"
    /\ LET r == FindTextureID(tag)
       IN Issue([op |-> "FindTextureID", tag |-> tag, ret |-> r.ret],
                [events |-> << >>, fault |-> r.fault])
    /\ UNCHANGED <<m_pShaderManager, m_loadedTextures, m_textureIDs, m_objectMaterials,
                   gl, loadOrder>>

DefineObjectMaterialsCall ==
    /\ fault = "none"
    /\ Len(m_objectMaterials) < MaxMaterialDefs * Len(SceneMaterials)
    /\ m_objectMaterials' = DefineObjectMaterials(m_objectMaterials)
    /\ Issue([op |-> "DefineObjectMaterials"], Returned(<< >>))
    /\ UNCHANGED <<m_pShaderManager, m_loadedTextures, m_textureIDs, gl, loadOrder>>

FindMaterialCall(tag, uninit) ==
    /\ fault = "none"
    /\ LET r == FindMaterial(tag, uninit)
       IN Issue([op |-> "FindMaterial", tag |-> tag, ret |-> r.ret, material |-> r.material],
                Returned(<< >>))
    /\ UNCHANGED <<m_pShaderManager, m_loadedTextures, m_textureIDs, m_objectMaterials,
                   gl, loadOrder>>

\* PrepareScene(), with files mapping each filename to what stbi_load returns for it
PrepareSceneCall(files) ==
    /\ fault = "none"
    /\ call.op # "~SceneManager"
    /\ Len(m_objectMaterials) < MaxPrepares * Len(SceneMaterials)
    /\ \E r \in {PrepareScene(Registry, files)} :
          /\ m_loadedTextures' = r.R.m_loadedTextures
          /\ m_textureIDs' = r.R.m_textureIDs
          /\ gl' = r.R.gl
          /\ loadOrder' = r.R.loadOrder
          /\ m_objectMaterials' = r.m_objectMaterials
          /\ Issue([op |-> "PrepareScene", files |-> files, count |-> m_loadedTextures,
                    entries |-> m_textureIDs],
                   [events |-> r.events, fault |-> r.fault])
    /\ UNCHANGED m_pShaderManager

\* DestroyGLTextures()
DestroyGLTexturesCall ==
    /\ fault = "none"
    /\ call.op # "~SceneManager"
    /\ Cardinality(gl.textures) < MaxTextureNames
    /\ \E r \in {DestroyGLTextures(Registry)} :
          /\ m_textureIDs' = r.R.m_textureIDs
          /\ gl' = r.R.gl
          /\ Issue([op |-> "DestroyGLTextures", names |-> gl.textures],
                   [events |-> r.events, fault |-> r.fault])
    /\ UNCHANGED <<m_pShaderManager, m_loadedTextures, m_objectMaterials, loadOrder>>

\* ~SceneManager(): the shader manager pointer is cleared and the meshes are deleted;
\* no method is called on the object afterwards
DestructorCall ==
    /\ fault = "none"
    /\ call.op # "~SceneManager"
    /\ m_pShaderManager' = "NULL"
    /\ gl' = [gl EXCEPT !.meshes = {}]
    /\ Issue([op |-> "~SceneManager"], Returned(<< >>))
    /\ UNCHANGED <<m_loadedTextures, m_textureIDs, m_objectMaterials, loadOrder>>

\* a slip in rendering: the call empties the material registry as it issues its events
EventCallClearsMaterials(c, r) ==
    /\ fault = "none"
    /\ Issue(c, r)
    /\ m_objectMaterials' = << >>
    /\ UNCHANGED <<m_pShaderManager, m_loadedTextures, m_textureIDs, gl, loadOrder>>

\* a call of a method that only issues events: the registries stay as they are
EventCall(c, r) ==
    /\ fault = "none"
    /\ Issue(c, r)
    /\ UNCHANGED <<m_pShaderManager, m_loadedTextures, m_textureIDs, m_objectMaterials,
                   gl, loadOrder>>

SetTransformationsCall(scaleXYZ, rx, ry, rz, positionXYZ) ==
    EventCall([op |-> "SetTransformations", scaleXYZ |-> scaleXYZ,
               rotationDegreesXYZ |-> <<rx, ry, rz>>, positionXYZ |-> positionXYZ],
              SetTransformations(scaleXYZ, rx, ry, rz, positionXYZ))

DrawMeshTransformationCall(scaleXYZ, rotationDegreesXYZ, positionXYZ, drawMeshFunction) ==
    EventCall([op |-> "DrawMeshTransformation", scaleXYZ |-> scaleXYZ,
               rotationDegreesXYZ |-> rotationDegreesXYZ, positionXYZ |-> positionXYZ,
               drawMeshFunction |-> drawMeshFunction],
              DrawMeshTransformation(scaleXYZ, rotationDegreesXYZ, positionXYZ,
                                     drawMeshFunction))

SetShaderColorCall(colorRGBA) ==
    EventCall([op |-> "SetShaderColor", colorRGBA |-> colorRGBA],
              SetShaderColor(colorRGBA[1], colorRGBA[2], colorRGBA[3], colorRGBA[4]))

SetupSceneLightsCall == EventCall([op |-> "SetupSceneLights"], SetupSceneLights)

SetShaderTextureCall(textureTag) ==
    EventCall([op |-> "SetShaderTexture", texture |-> textureTag],
              SetShaderTexture(textureTag))

SetTextureUVScaleCall(UVscale) ==
    EventCall([op |-> "SetTextureUVScale", UVscale |-> UVscale],
              SetTextureUVScale(UVscale[1], UVscale[2]))

SetShaderMaterialCall(materialTag, uninit) ==
    EventCall([op |-> "SetShaderMaterial", material |-> materialTag],
              SetShaderMaterial(materialTag, uninit))

SetShaderAttributesCall(colorRGBA, texture, UVscale, material, uninit) ==
    EventCall([op |-> "SetShaderAttributes", colorRGBA |-> colorRGBA, texture |-> texture,
               UVscale |-> UVscale, material |-> material],
              SetShaderAttributes(colorRGBA, texture, UVscale, material, uninit))

\* the compound object named op drawn at origin
Compound(op, origin, uninit) ==
    CASE op = "DrawJar" -> DrawJar(origin[1], origin[2], origin[3], uninit)
      [] op = "DrawCup" -> DrawCup(origin[1], origin[2], origin[3], uninit)
      [] op = "DrawCucumber" -> DrawCucumber(origin[1], origin[2], origin[3], uninit)
      [] op = "DrawKnife" -> DrawKnife(origin[1], origin[2], origin[3], uninit)

DrawJarCall(origin, uninit) ==
    EventCall([op |-> "DrawJar", origin |-> origin], Compound("DrawJar", origin, uninit))

DrawCupCall(origin, uninit) ==
    EventCall([op |-> "DrawCup", origin |-> origin], Compound("DrawCup", origin, uninit))

DrawCucumberCall(origin, uninit) ==
    EventCall([op |-> "DrawCucumber", origin |-> origin],
              Compound("DrawCucumber", origin, uninit))

DrawKnifeCall(origin, uninit) ==
    EventCall([op |-> "DrawKnife", origin |-> origin], Compound("DrawKnife", origin, uninit))

RenderSceneCall(uninit) == EventCall([op |-> "RenderScene"], RenderScene(uninit))

(***************************************************************************)
(* ViewManager::ProcessKeyboardEvents: one frame of keyboard polling, keys *)
(* being the keys glfwGetKey reports as pressed.  The Zoom is in           *)
(* thousandths of a degree, like every angle.                              *)
(***************************************************************************)
\* Camera::ProcessKeyboard(direction, deltaTime): the camera is moved from where it was
CameraProcessKeyboard(camera, direction) == [camera EXCEPT !.Position = "moved"]

\* the movement keys, in the order they are polled, with the direction each asks for
MovementKeys ==
    << [key |-> "W", direction |-> "FORWARD"], [key |-> "S", direction |-> "BACKWARD"],
       [key |-> "A", direction |-> "LEFT"], [key |-> "D", direction |-> "RIGHT"],
       [key |-> "Q", direction |-> "UP"], [key |-> "E", direction |-> "DOWN"] >>

RECURSIVE ProcessMovementKeys(_, _, _)
ProcessMovementKeys(camera, keys, k) ==
    IF k > Len(MovementKeys) THEN camera
    ELSE ProcessMovementKeys(IF MovementKeys[k].key \in keys
                             THEN CameraProcessKeyboard(camera, MovementKeys[k].direction)
                             ELSE camera,
                             keys, k + 1)

\* if (Zoom >= 10) Zoom -= 0.01
ZoomIn(camera) ==
    IF camera.Zoom >= 10000 THEN [camera EXCEPT !.Zoom = @ - 10] ELSE camera

\* if (Zoom <= 160) Zoom += 0.01
ZoomOut(camera) ==
    IF camera.Zoom <= 160000 THEN [camera EXCEPT !.Zoom = @ + 10] ELSE camera

\* the O key: the front view of the orthographic projection
FrontView(camera) ==
    [camera EXCEPT !.Position = <<0, 2000, 10000>>, !.Front = <<0, 0, -1000>>,
                   !.Up = <<0, 5000, 0>>]

\* the camera after the movement keys, then UP, then DOWN, then O
ProcessKeyboardEvents(camera, keys) ==
    The({IF "O" \in keys THEN FrontView(zoomed) ELSE zoomed :
         zoomed \in {The({IF "DOWN" \in keys THEN ZoomOut(zoomedIn) ELSE zoomedIn :
                          zoomedIn \in {The({IF "UP_ARROW" \in keys THEN ZoomIn(moved)
                                             ELSE moved :
                                             moved \in {ProcessMovementKeys(camera, keys,
                                                                            1)}})}})}})

ProcessKeyboardEventsCall(keys) ==
    /\ fault = "none"
    /\ windowShouldClose' = (windowShouldClose \/ "ESCAPE" \in keys)
    /\ g_pCamera' = ProcessKeyboardEvents(g_pCamera, keys)
    /\ bOrthographicProjection' =
          IF "P" \in keys THEN FALSE
          ELSE IF "O" \in keys THEN TRUE ELSE bOrthographicProjection
    /\ call' = [op |-> "ProcessKeyboardEvents"]
    /\ trace' = << >>
    /\ UNCHANGED <<m_pShaderManager, m_loadedTextures, m_textureIDs, m_objectMaterials,
                   gl, shader, loadOrder, fault>>

(***************************************************************************)
(* Inputs the specifications draw from                                     *)
(***************************************************************************)
\* stbi_load: no image (file missing or unreadable), or pixels with a channel count
NoImage == [pixels |-> FALSE, colorChannels |-> 0]

Image(colorChannels) == [pixels |-> TRUE, colorChannels |-> colorChannels]

\* scales, angles and positions: identity, the pure scale (2, 3, 4), a
\* flipped and degenerate scale; quarter turns; the origin and the jar's first position
Scales == { <<1000, 1000, 1000>>, <<2000, 3000, 4000>>, <<-1000, 0, 500>> }

Angles == {0, 90000, -90000}

Positions == { <<0, 0, 0>>, <<6000, 150, -6200>> }

\* opaque red (the uniform starts as transparent black); the jar's torus UV scale
Colors == { <<1000, 0, 0, 1000>> }

UVscales == { <<1500, 300>> }

LoadTags == {"wood", "metal"}

\* the selectors of ShapeMeshWrappers
DrawFunctions ==
    {"DrawBoxMeshWrapper", "DrawConeMeshWrapper", "DrawCylinderMeshWrapper",
     "DrawHollowCylinderMeshWrapper", "DrawNoSideCylinderMeshWrapper",
     "DrawPlaneMeshWrapper", "DrawPrismMeshWrapper", "DrawPyramid3MeshWrapper",
     "DrawPyramid4MeshWrapper", "DrawSphereMeshWrapper", "DrawHalfSphereMeshWrapper",
     "DrawTaperedCylinderMeshWrapper", "DrawTorusMeshWrapper", "DrawHalfTorusMeshWrapper",
     "DrawNone"}

\* where compound objects are placed: the jar's place in the scene, and another place
Origins == { <<6000, 0, -6200>>, <<-3000, 250, -700>> }

\* the texture files of the scene when the files in failing cannot be used (bad is what
\* stbi_load returns for them): a .png decodes to four channels, the others to three
SceneFiles(failing, bad) ==
    [f \in {SceneTextures[k].filename : k \in 1..Len(SceneTextures)} |->
        IF f \in failing THEN bad
        ELSE IF f \in {"glass10.png", "glass13.png"} THEN Image(4) ELSE Image(3)]

\* the first, a middle and the last file fail, in every combination; a failing file is
\* missing or has one colour channel
FailingFiles == SUBSET {"tile.jpg", "metal.jpg", "glass13.png"}

SceneFileSets ==
    {SceneFiles(failing, bad) : failing \in FailingFiles, bad \in {NoImage, Image(1)}}

TextureTags == {"none", "metal", "missing"}

MaterialTags == {"none", "glass", "missing"}

(***************************************************************************)
(* Specifications                                                          *)
(***************************************************************************)
\* the transform pipeline
NextTransform ==
    \/ \E s \in Scales, rx \in Angles, ry \in Angles, rz \in Angles, p \in Positions :
          SetTransformationsCall(s, rx, ry, rz, p)
    \/ \E rx \in {0, 90000}, ry \in {0, 180000}, rz \in {0, -90000},
          f \in {"DrawSphereMeshWrapper", "DrawNone"} :
          DrawMeshTransformationCall(<<2000, 300, 2000>>, <<rx, ry, rz>>,
                                     <<6000, 150, -6200>>, f)

SpecTransform == Init /\ [][NextTransform]_vars

\* the texture registry
NextTextures ==
    \/ \E image \in {NoImage, Image(1), Image(3), Image(4)}, tag \in LoadTags :
          CreateGLTextureCall(image, tag)
    \/ \E tag \in LoadTags \cup {"missing", ""} : FindTextureSlotCall(tag)
    \/ \E tag \in LoadTags \cup {"missing", ""} : FindTextureIDCall(tag)

SpecTextures == Init /\ [][NextTextures]_vars

\* scene setup and teardown
NextSetup ==
    \/ \E files \in SceneFileSets : PrepareSceneCall(files)
    \/ DestroyGLTexturesCall
    \/ DestructorCall

SpecSetup == Init /\ [][NextSetup]_vars

\* the scene: setup, the compound objects at several origins, a whole frame, and
\* attribute changes in between
NextScene ==
    \/ \E files \in {SceneFiles({}, NoImage), SceneFiles({"glass13.png"}, NoImage)} :
          PrepareSceneCall(files)
    \/ \E origin \in Origins, uninit \in UninitMaterials : DrawJarCall(origin, uninit)
    \/ \E origin \in Origins, uninit \in UninitMaterials : DrawCupCall(origin, uninit)
    \/ \E origin \in Origins, uninit \in UninitMaterials : DrawCucumberCall(origin, uninit)
    \/ \E origin \in Origins, uninit \in UninitMaterials : DrawKnifeCall(origin, uninit)
    \/ \E uninit \in UninitMaterials : RenderSceneCall(uninit)
    \/ \E uninit \in UninitMaterials :
          SetShaderAttributesCall(<<1000, 0, 0, 1000>>, "marble", <<1500, 300>>, "stone",
                                  uninit)

SpecScene == Init /\ [][NextScene]_vars

\* every selector, drawn through DrawMeshTransformation
NextWrappers ==
    \E scaleXYZ \in { <<1000, 1000, 1000>>, <<2000, 300, 2000>> }, rx \in {0, 90000},
       positionXYZ \in Positions, f \in DrawFunctions :
          DrawMeshTransformationCall(scaleXYZ, <<rx, 0, 0>>, positionXYZ, f)

SpecWrappers == Init /\ [][NextWrappers]_vars

\* the keys held down in a frame: the zoom keys alone and together; escape with a
\* movement key and the orthographic key; the perspective key
KeySets == { {"UP_ARROW"}, {"DOWN"}, {"UP_ARROW", "DOWN"}, {"ESCAPE", "W", "O"}, {"P"} }

\* the view: frames of keyboard polling
NextView == \E keys \in KeySets : ProcessKeyboardEventsCall(keys)

SpecView == Init /\ [][NextView]_vars

\* the shader-state operations one by one, with and without a shader manager, over an
\* empty and a defined material registry
NextShaderState ==
    \/ DefineObjectMaterialsCall
    \/ SetTransformationsCall(<<2000, 300, 2000>>, 0, 0, 0, <<6000, 150, -6200>>)
    \/ \E c \in Colors : SetShaderColorCall(c)
    \/ \E t \in {"metal", "missing"} : SetShaderTextureCall(t)
    \/ SetTextureUVScaleCall(<<2000, 1000>>)
    \/ \E m \in {"glass", "missing"}, uninit \in UninitMaterials :
          SetShaderMaterialCall(m, uninit)
    \/ SetupSceneLightsCall

SpecShaderState == Init /\ [][NextShaderState]_vars

\* the material registry
NextMaterials ==
    \/ DefineObjectMaterialsCall
    \/ \E tag \in MaterialTags \cup {"organic", ""}, uninit \in UninitMaterials :
          FindMaterialCall(tag, uninit)

SpecMaterials == Init /\ [][NextMaterials]_vars

\* the shader attributes, over the registries that loads and material definitions build
NextShader ==
    \/ \E tag \in LoadTags : CreateGLTextureCall(Image(3), tag)
    \/ DefineObjectMaterialsCall
    \/ SetTransformationsCall(<<2000, 300, 2000>>, 90000, 0, 0, <<6000, 150, -6200>>)
    \/ \E t \in TextureTags : SetShaderTextureCall(t)
    \/ SetTextureUVScaleCall(<<2000, 1000>>)
    \/ \E m \in MaterialTags, uninit \in UninitMaterials : SetShaderMaterialCall(m, uninit)
    \/ \E c \in Colors, t \in TextureTags, uv \in UVscales, m \in MaterialTags,
          uninit \in UninitMaterials :
          SetShaderAttributesCall(c, t, uv, m, uninit)

SpecShader == Init /\ [][NextShader]_vars

Next ==
    \/ NextTransform \/ NextTextures \/ NextMaterials \/ NextShader \/ NextSetup \/ NextScene
    \/ NextWrappers \/ NextView \/ NextShaderState

Spec == Init /\ [][Next]_vars

(***************************************************************************)
(* Reference semantics of a placement, computed on points without any      *)
(* matrix: scale the point, turn it about Z, then Y, then X, then move it. *)
(***************************************************************************)
Turn90(v, axis) ==
    CASE axis = "X" -> << v[1], -v[3], v[2] >>
      [] axis = "Y" -> << v[3], v[2], -v[1] >>
      [] axis = "Z" -> << -v[2], v[1], v[3] >>

RECURSIVE TurnQuarters(_, _, _)
TurnQuarters(v, axis, k) == IF k = 0 THEN v ELSE TurnQuarters(Turn90(v, axis), axis, k - 1)

\* v turned by a whole number of right angles, given in degrees
TurnDegrees(v, axis, degrees) == TurnQuarters(v, axis, (degrees \div 90000) % 4)

PlacedPoint(scaleXYZ, rotationDegreesXYZ, positionXYZ, v) ==
    LET scaled == << scaleXYZ[1] * v[1], scaleXYZ[2] * v[2], scaleXYZ[3] * v[3] >>
        turned == TurnDegrees(TurnDegrees(TurnDegrees(scaled, "Z", rotationDegreesXYZ[3]),
                                          "Y", rotationDegreesXYZ[2]),
                              "X", rotationDegreesXYZ[1])
    IN << turned[1] + positionXYZ[1], turned[2] + positionXYZ[2],
          turned[3] + positionXYZ[3], 1000 >>

\* the matrix M applied to the point v (homogeneous coordinate 1)
MatPoint(M, v) ==
    << M[1][1] * v[1] + M[1][2] * v[2] + M[1][3] * v[3] + M[1][4],
       M[2][1] * v[1] + M[2][2] * v[2] + M[2][3] * v[3] + M[2][4],
       M[3][1] * v[1] + M[3][2] * v[2] + M[3][3] * v[3] + M[3][4],
       M[4][1] * v[1] + M[4][2] * v[2] + M[4][3] * v[3] + M[4][4] >>

\* the origin and the three unit points: an affine map is fixed by their images
ProbePoints == { <<0, 0, 0>>, <<1, 0, 0>>, <<0, 1, 0>>, <<0, 0, 1>> }

(***************************************************************************)
(* C1.  After SetTransformations or DrawMeshTransformation returns (with a *)
(* shader manager attached), the "model" uniform is the matrix of          *)
(* Translate(position) * RotateX(x) * RotateY(y) * RotateZ(z) *            *)
(* Scale(scale): it maps every point to the point scaled, then turned      *)
(* about Z, about Y, about X by the given degrees, then translated; the    *)
(* call wrote "model" exactly once, first; and DrawMeshTransformation used *)
(* the components of its rotation vector as the X, Y and Z angles.         *)
(***************************************************************************)
C1_ModelIsTranslateRotateXYZScale ==
    (call.op \in {"SetTransformations", "DrawMeshTransformation"}
        /\ m_pShaderManager # "NULL")
    => /\ \A v \in ProbePoints :
            MatPoint(shader["model"], v)
                = PlacedPoint(call.scaleXYZ, call.rotationDegreesXYZ, call.positionXYZ, v)
       /\ shader["model"][4] = <<0, 0, 0, 1000>>
       /\ Len(trace) >= 1
       /\ trace[1] = Uniform("model", shader["model"])
       /\ \A k \in 2..Len(trace) : trace[k].kind # "uniform"

\* a combined placement (scale 2,3,4; turns about all three axes; a translation) was
\* uploaded by SetTransformations
C1_Witness ==
    /\ m_pShaderManager # "NULL"
    /\ call.op = "SetTransformations"
    /\ call.scaleXYZ = <<2000, 3000, 4000>>
    /\ call.rotationDegreesXYZ = <<90000, -90000, 90000>>
    /\ call.positionXYZ = <<6000, 150, -6200>>
    /\ shader["model"] = << <<0, 0, -4000, 6000>>,
                            <<0, 3000, 0, 150>>,
                            <<2000, 0, 0, -6200>>,
                            <<0, 0, 0, 1000>> >>

(***************************************************************************)
(* Vocabulary of the attribute claims                                      *)
(***************************************************************************)
\* the five uniforms SetShaderMaterial writes, in its order
MaterialUniforms ==
    << "material.ambientColor", "material.ambientStrength", "material.diffuseColor",
       "material.specularColor", "material.shininess" >>

\* the names of the uniforms the last call wrote, in order
TraceNames == [k \in 1..Len(trace) |-> trace[k].name]

\* tag was given to a CreateGLTexture call that returned true
TextureRegistered(tag) == \E k \in 1..Len(loadOrder) : loadOrder[k] = tag

\* tag is the tag of a material DefineObjectMaterials pushed
MaterialRegistered(tag) == \E k \in 1..Len(m_objectMaterials) : m_objectMaterials[k].tag = tag

(***************************************************************************)
(* C2.  Every SetShaderAttributes call that returns (with a shader manager *)
(* attached) wrote its uniforms in the order: the colour step, then the    *)
(* texture step exactly when the texture tag is not "none", then the UV    *)
(* scale with the given value, then the material uniforms and only when    *)
(* the material tag is not "none".  The UV scale is written in every call. *)
(***************************************************************************)
C2_AttributesWrittenInFixedOrder ==
    (call.op = "SetShaderAttributes" /\ m_pShaderManager # "NULL")
    => LET colorPart == << "bUseTexture", "objectColor" >>
           texturePart == IF call.texture # "none"
                          THEN << "bUseTexture", "objectTexture" >>
                          ELSE << >>
           uvAt == Len(colorPart) + Len(texturePart) + 1
       IN \E materialPart \in { << >>, MaterialUniforms } :
             /\ call.material = "none" => materialPart = << >>
             /\ TraceNames = colorPart \o texturePart \o << "UVscale" >> \o materialPart
             /\ trace[uvAt] = Uniform("UVscale", call.UVscale)

\* a call with a registered texture and a registered material wrote all ten uniforms,
\* the UV scale fifth
C2_Witness ==
    /\ m_pShaderManager # "NULL"
    /\ call.op = "SetShaderAttributes"
    /\ call.texture = "metal"
    /\ call.material = "glass"
    /\ Len(trace) = 10
    /\ trace[5] = Uniform("UVscale", <<1500, 300>>)
    /\ trace[10] = Uniform("material.shininess", 75000)

(***************************************************************************)
(* C3.  Every SetShaderAttributes call that returns (with a shader manager *)
(* attached) leaves the colour uniform equal to the colour it was given    *)
(* and writes the texture flag off in its colour step; when its texture    *)
(* tag is "none" the flag is off afterwards and the sampler uniform has    *)
(* the value it had before the call.                                       *)
(***************************************************************************)
C3_ColorSetAndTextureFlagDisabled ==
    [][(call'.op = "SetShaderAttributes" /\ m_pShaderManager # "NULL")
       => /\ shader'["objectColor"] = call'.colorRGBA
          /\ \E k \in 1..Len(trace') : trace'[k] = Uniform("bUseTexture", 0)
          /\ call'.texture = "none"
             => /\ shader'["bUseTexture"] = 0
                /\ shader'["objectTexture"] = shader["objectTexture"]]_vars

\* an untextured call after a textured one: the flag is off, the sampler still holds
\* the slot the earlier call selected
C3_Witness ==
    /\ m_pShaderManager # "NULL"
    /\ call.op = "SetShaderAttributes"
    /\ call.texture = "none"
    /\ shader["objectColor"] = <<1000, 0, 0, 1000>>
    /\ shader["bUseTexture"] = 0
    /\ shader["objectTexture"] = 1

(***************************************************************************)
(* C4.  After SetShaderAttributes or SetShaderTexture returns for a        *)
(* texture tag other than "none" (with a shader manager attached), the     *)
(* sampler uniform is the index of a loaded registry entry carrying that   *)
(* tag if the tag was registered, and -1 if it was not.                    *)
(***************************************************************************)
C4_SamplerIsSlotOfTagOrMinusOne ==
    (call.op \in {"SetShaderAttributes", "SetShaderTexture"}
        /\ m_pShaderManager # "NULL"
        /\ call.texture # "none")
    => LET slot == shader["objectTexture"]
       IN IF TextureRegistered(call.texture)
          THEN /\ slot \in 0..(m_loadedTextures - 1)
               /\ slot \in DOMAIN m_textureIDs
               /\ m_textureIDs[slot].tag = call.texture
               /\ \A i \in 0..(slot - 1) : m_textureIDs[i].tag # call.texture
          ELSE slot = -1

\* "metal" was loaded second and SetShaderAttributes selected slot 1 for it
C4_Witness ==
    /\ m_pShaderManager # "NULL"
    /\ call.op = "SetShaderAttributes"
    /\ call.texture = "metal"
    /\ loadOrder = << "wood", "metal" >>
    /\ m_loadedTextures = 2
    /\ shader["objectTexture"] = 1

(***************************************************************************)
(* C5.  After SetShaderAttributes returns for a texture tag that is not    *)
(* "none" and was never registered (with a shader manager attached), the   *)
(* texture flag is off: applying a tag enables it only if the tag is found.*)
(***************************************************************************)
C5_FlagEnabledOnlyIfTagFound ==
    (call.op = "SetShaderAttributes"
        /\ m_pShaderManager # "NULL"
        /\ call.texture # "none"
        /\ ~TextureRegistered(call.texture))
    => shader["bUseTexture"] = 0

(***************************************************************************)
(* C6.  A SetShaderMaterial call, direct or made by SetShaderAttributes    *)
(* for a material tag that is not "none", whose tag is not in the material *)
(* registry writes none of the five material uniforms, with the registry   *)
(* empty or not.                                                           *)
(***************************************************************************)
C6_UnregisteredMaterialWritesNothing ==
    (/\ call.op \in {"SetShaderMaterial", "SetShaderAttributes"}
     /\ call.op = "SetShaderAttributes" => call.material # "none"
     /\ ~MaterialRegistered(call.material))
    => \A k \in 1..Len(trace) :
          \A n \in 1..Len(MaterialUniforms) : trace[k].name # MaterialUniforms[n]

(***************************************************************************)
(* C7.  FindMaterial returns true exactly when an entry with the tag is    *)
(* registered, false for every other tag, and on true the output material  *)
(* holds the five fields of the first entry with that tag.                 *)
(***************************************************************************)
C7_FindMaterialReportsNotFound ==
    call.op = "FindMaterial"
    => /\ call.ret = MaterialRegistered(call.tag)
       /\ call.ret
          => \E k \in 1..Len(m_objectMaterials) :
                /\ m_objectMaterials[k].tag = call.tag
                /\ \A j \in 1..(k - 1) : m_objectMaterials[j].tag # call.tag
                /\ call.material.ambientColor = m_objectMaterials[k].ambientColor
                /\ call.material.ambientStrength = m_objectMaterials[k].ambientStrength
                /\ call.material.diffuseColor = m_objectMaterials[k].diffuseColor
                /\ call.material.specularColor = m_objectMaterials[k].specularColor
                /\ call.material.shininess = m_objectMaterials[k].shininess

(***************************************************************************)
(* C8.  A SetShaderTexture call changes no uniform other than the texture  *)
(* flag and the sampler: the colour, UV scale, the five material uniforms  *)
(* and the model matrix are after the call what they were before it.       *)
(***************************************************************************)
C8_SetShaderTextureChangesOnlyFlagAndSampler ==
    [][call'.op = "SetShaderTexture"
       => \A n \in DOMAIN shader \ {"bUseTexture", "objectTexture"} :
             shader'[n] = shader[n]]_vars

\* after a full attribute application and a model upload, SetShaderTexture alone switched
\* the slot: the red colour, the UV scale, the glass material and the model are still there
C8_Witness ==
    /\ call.op = "SetShaderTexture"
    /\ call.texture = "metal"
    /\ shader["bUseTexture"] = 1
    /\ shader["objectTexture"] = 0
    /\ shader["objectColor"] = <<1000, 0, 0, 1000>>
    /\ shader["UVscale"] = <<1500, 300>>
    /\ shader["material.shininess"] = 75000
    /\ shader["model"] # ZeroMat4

(***************************************************************************)
(* C9.  FindTextureSlot(tag) returns the zero-based position of tag in the *)
(* order of the CreateGLTexture calls that returned true (k-th loaded:     *)
(* k - 1), and -1 for a tag that was never loaded.                         *)
(***************************************************************************)
C9_SlotIsLoadPosition ==
    call.op = "FindTextureSlot"
    => IF TextureRegistered(call.tag)
       THEN /\ call.ret + 1 \in 1..Len(loadOrder)
            /\ loadOrder[call.ret + 1] = call.tag
            /\ \A k \in 1..call.ret : loadOrder[k] # call.tag
       ELSE call.ret = -1

(***************************************************************************)
(* C10.  No two entries that CreateGLTexture has registered carry the same *)
(* tag, whatever sequence of CreateGLTexture calls was made.               *)
(***************************************************************************)
C10_RegisteredTagsUnique ==
    LET loaded == (m_loadedTextures - Len(loadOrder))..(m_loadedTextures - 1)
    IN \A i \in loaded : \A j \in loaded :
          i # j => m_textureIDs[i].tag # m_textureIDs[j].tag

(***************************************************************************)
(* Scene setup and teardown                                                *)
(***************************************************************************)
\* the value m_loadedTextures had when the constructor returned: every successful load
\* adds one to the count and one tag to loadOrder
InitialLoadedTextures == m_loadedTextures - Len(loadOrder)

\* a write to m_textureIDs[m_loadedTextures] outside the array ended the call
WroteOutsideTextureArray ==
    /\ fault = "out_of_bounds"
    /\ call.op = "fault"
    /\ call.in \in {"CreateGLTexture", "PrepareScene"}

\* C11: when the count starts at zero, after any sequence of loads, PrepareScene run
\* more than once included, the number of loaded textures is at most 16 and no entry
\* is written at index 16 or above
C11_LoadedTexturesWithinCapacity ==
    InitialLoadedTextures = 0 =>
        /\ m_loadedTextures <= TextureSlots
        /\ ~WroteOutsideTextureArray

\* stbi_load gave pixels with three or four colour channels
Usable(image) == image.pixels /\ image.colorChannels \in {3, 4}

\* the tags of the scene textures from the k-th on whose file is usable, in load order
RECURSIVE UsableTagsFrom(_, _)
UsableTagsFrom(files, k) ==
    IF k > Len(SceneTextures) THEN << >>
    ELSE (IF Usable(files[SceneTextures[k].filename])
          THEN << SceneTextures[k].tag >> ELSE << >>)
         \o UsableTagsFrom(files, k + 1)

UsableTags(files) == UsableTagsFrom(files, 1)

\* PrepareScene returned; call holds its files and the count and entries it started from
PrepareSceneReturned == call.op = "PrepareScene"

\* C12: whatever subset of the ten files fails to load (missing, or a channel count
\* other than 3 and 4), LoadSceneTextures attempts all ten in order, each attempt
\* returns true exactly for a usable file, a failed attempt leaves the entries and the
\* count as they were (the count grows by the number of usable files, the new entries
\* are their tags in order, the earlier entries are untouched), and afterwards every
\* registered entry is bound to the unit of its index
C12_FailedLoadsAreSkipped ==
    PrepareSceneReturned =>
        LET usable == UsableTags(call.files)
            loads == Len(SceneTextures)
        IN /\ Len(trace) >= loads + m_loadedTextures
           /\ \A k \in 1..loads :
                 trace[k] = TextureLoad(SceneTextures[k].tag,
                                        Usable(call.files[SceneTextures[k].filename]))
           /\ m_loadedTextures = call.count + Len(usable)
           /\ \A i \in 0..(call.count - 1) : m_textureIDs[i] = call.entries[i]
           /\ \A j \in 1..Len(usable) : m_textureIDs[call.count + j - 1].tag = usable[j]
           /\ \A i \in m_loadedTextures..(TextureSlots - 1) :
                 m_textureIDs[i] = call.entries[i]
           /\ \A i \in 0..(m_loadedTextures - 1) :
                 /\ trace[loads + i + 1] = TextureBind(i, m_textureIDs[i].ID)
                 /\ gl.units[i] = m_textureIDs[i].ID

\* the first and the last file have one colour channel: the other eight are registered
\* and bound
C12_Witness ==
    /\ PrepareSceneReturned
    /\ call.files = SceneFiles({"tile.jpg", "glass13.png"}, Image(1))
    /\ call.count = 0
    /\ m_loadedTextures = 8
    /\ trace[1] = TextureLoad("backdrop", FALSE)
    /\ trace[2] = TextureLoad("counter", TRUE)
    /\ trace[10] = TextureLoad("glass13", FALSE)
    /\ trace[11].kind = "bind"
    /\ m_textureIDs[0].tag = "counter"
    /\ m_textureIDs[7].tag = "glass10"

\* ~SceneManager() has run
Destroyed == call.op = "~SceneManager"

\* C13: once the SceneManager is destroyed, every texture name generated for it has
\* been released: none exists any more, neither one created by CreateGLTexture nor
\* one generated during teardown
C13_DestroyedReleasesEveryTexture == Destroyed => gl.textures = {}

\* the phase of PrepareScene an event belongs to: texture loading and binding, material
\* registration, light uniforms, mesh loading
Phase(e) ==
    CASE e.kind \in {"load", "bind"} -> 1
      [] e.kind = "material" -> 2
      [] e.kind = "uniform" -> 3
      [] e.kind = "loadmesh" -> 4
      [] OTHER -> 0

EventsOfPhase(phase) == {k \in 1..Len(trace) : Phase(trace[k]) = phase}

\* C14: in a PrepareScene that returns, every texture load and binding comes before
\* any material registration, every material registration before any light uniform
\* write, every light uniform write before any mesh load; all ten loads, the six
\* materials, the nineteen light uniforms and the eleven mesh loads are there
C14_PrepareSceneOrder ==
    PrepareSceneReturned =>
        /\ \A i, j \in 1..Len(trace) : i < j => Phase(trace[i]) <= Phase(trace[j])
        /\ \A k \in 1..Len(trace) : Phase(trace[k]) \in 1..4
        /\ Cardinality({k \in 1..Len(trace) : trace[k].kind = "load"}) = Len(SceneTextures)
        /\ Cardinality({k \in 1..Len(trace) : trace[k].kind = "bind"}) = m_loadedTextures
        /\ Cardinality(EventsOfPhase(2)) = Len(SceneMaterials)
        /\ Cardinality(EventsOfPhase(3)) = 1 + 6 * Len(SceneLights)
        /\ Cardinality(EventsOfPhase(4)) = Len(SceneMeshLoads)

\* all ten textures load: 10 loads, 10 bindings, 6 materials, 19 uniforms, 11 mesh loads
C14_Witness ==
    /\ PrepareSceneReturned
    /\ Len(trace) = 56
    /\ trace[10] = TextureLoad("glass13", TRUE)
    /\ trace[20].kind = "bind"
    /\ trace[21] = MaterialPush("glass")
    /\ trace[26] = MaterialPush("organic")
    /\ trace[27] = Uniform("bUseLighting", 1)
    /\ trace[45] = Uniform("lightSources[2].specularIntensity", 10)
    /\ trace[46] = MeshLoad("Plane")
    /\ trace[56] = MeshLoad("Prism")
    /\ shader["lightSources[0].position"] = <<-6700, 5500, 1000>>
    /\ Len(m_objectMaterials) = 6
    /\ "Torus" \in gl.meshes

(***************************************************************************)
(* The compound objects                                                    *)
(***************************************************************************)
CompoundOps == {"DrawJar", "DrawCup", "DrawCucumber", "DrawKnife"}

\* the matrix with its translation column moved by delta
Moved(matrix, delta) ==
    << <<matrix[1][1], matrix[1][2], matrix[1][3], matrix[1][4] + delta[1]>>,
       <<matrix[2][1], matrix[2][2], matrix[2][3], matrix[2][4] + delta[2]>>,
       <<matrix[3][1], matrix[3][2], matrix[3][3], matrix[3][4] + delta[3]>>,
       matrix[4] >>

\* events2 is events1 with every placement moved by delta and nothing else changed:
\* the same number of events, the same draws with the same flags, the same attribute
\* writes, and model matrices that differ in the translation column only, by delta
Relocated(events1, events2, delta) ==
    /\ Len(events1) = Len(events2)
    /\ \A k \in 1..Len(events1) :
          IF events1[k].kind = "uniform" /\ events1[k].name = "model"
          THEN events2[k] = Uniform("model", Moved(events1[k].value, delta))
          ELSE events2[k] = events1[k]

\* C15: for each compound object and any two origins, the two draw sequences have
\* the same length, shapes, scales, rotations and shader attributes, and each
\* sub-part's position differs by exactly the difference of the origins
C15_OriginOnlyTranslates ==
    [][(call'.op \in CompoundOps /\ m_pShaderManager # "NULL") =>
         \A origin \in Origins \ {call'.origin}, uninit \in UninitMaterials :
            \A other \in {Compound(call'.op, origin, uninit)} :
               /\ other.fault = "none"
               /\ Relocated(trace', other.events,
                            << origin[1] - call'.origin[1], origin[2] - call'.origin[2],
                               origin[3] - call'.origin[3] >>)]_vars

\* the cup drawn away from its place in the scene: three draws, the straw's model
\* matrix carries the origin plus the straw's offset
C15_Witness ==
    /\ call = [op |-> "DrawCup", origin |-> <<-3000, 250, -700>>]
    /\ m_pShaderManager # "NULL"
    /\ Cardinality({k \in 1..Len(trace) : trace[k].kind = "draw"}) = 3
    /\ shader["model"][1][4] = -2650
    /\ shader["model"][2][4] = 250
    /\ shader["model"][3][4] = -1050

\* the positions of the draws among the events
Draws(events) == {k \in 1..Len(events) : events[k].kind = "draw"}

\* the rendering state a draw sees in the uniforms u: colour, texture flag, sampler
\* when the flag is on, UV scale, material and model matrix
Seen(u) ==
    [name \in {"objectColor", "bUseTexture", "objectTexture", "UVscale", "model"}
              \cup {MaterialUniforms[k] : k \in 1..Len(MaterialUniforms)} |->
        IF name = "objectTexture" /\ u["bUseTexture"] # 1 THEN 0 ELSE u[name]]

\* uniforms left by some earlier rendering, unlike anything the scene writes
OtherUniforms ==
    [name \in DOMAIN InitialUniforms |->
        CASE name = "model" -> Identity4
          [] name = "objectColor" -> <<-1, -1, -1, -1>>
          [] name = "UVscale" -> <<-1, -1>>
          [] name \in {"material.ambientColor", "material.diffuseColor",
                       "material.specularColor"} -> <<-1, -1, -1>>
          [] OTHER -> -1]

\* C16: with the registries as PrepareScene left them, the rendering state every draw
\* of a compound object sees does not depend on the shader state before the call: it
\* is the same from the actual prior state as from any other prior state
C16_CompoundObjectsStateless ==
    [][(/\ call'.op \in CompoundOps
        /\ m_pShaderManager # "NULL"
        /\ Len(m_objectMaterials) > 0) =>
         \A d \in Draws(trace') :
            Seen(ApplyWrites(shader, SubSeq(trace', 1, d)))
               = Seen(ApplyWrites(OtherUniforms, SubSeq(trace', 1, d)))]_vars

\* the knife drawn after PrepareScene: five draws, and the uniforms end as the knife's
\* blade leaves them
C16_Witness ==
    /\ call.op = "DrawKnife"
    /\ m_pShaderManager # "NULL"
    /\ MaterialRegistered("metal")
    /\ TextureRegistered("metal")
    /\ Cardinality(Draws(trace)) = 5
    /\ shader["UVscale"] = <<300, 300>>
    /\ shader["bUseTexture"] = 1
    /\ shader["objectColor"] = <<300, 300, 200, 1000>>

(***************************************************************************)
(* The jar                                                                 *)
(***************************************************************************)
IsDraw(e) == e.kind = "draw"

\* the meshes drawn, in order
DrawnMeshes(events) ==
    LET draws == SelectSeq(events, IsDraw)
    IN [k \in 1..Len(draws) |-> draws[k].mesh]

\* the position among the events of the n-th draw
NthDraw(events, n) ==
    CHOOSE k \in Draws(events) : Cardinality({j \in Draws(events) : j <= k}) = n

\* the value the n-th draw sees in the uniform name, written before it by these events
SeenByNthDraw(events, n, name) ==
    ApplyWrites(InitialUniforms, SubSeq(events, 1, NthDraw(events, n)))[name]

JarOrigin == <<6000, 0, -6200>>

\* scale (2.0, 0.3, 2.0), no rotation, position (6.0, 0.15, -6.2)
JarBaseModel ==
    << <<2000, 0, 0, 6000>>, <<0, 300, 0, 150>>, <<0, 0, 2000, -6200>>, <<0, 0, 0, 1000>> >>

\* C17: with origin (6.0, 0.0, -6.2), as RenderScene places it, the jar's first
\* sub-part is a sphere with scale (2.0, 0.3, 2.0), zero rotation and position
\* (6.0, 0.15, -6.2); in RenderScene the jar comes after the three background draws
C17_JarBaseAtSceneOrigin ==
    /\ (call = [op |-> "DrawJar", origin |-> JarOrigin] /\ m_pShaderManager # "NULL") =>
          /\ trace[NthDraw(trace, 1)] = MeshDraw("Sphere", << >>)
          /\ SeenByNthDraw(trace, 1, "model") = JarBaseModel
    /\ (call.op = "RenderScene" /\ m_pShaderManager # "NULL") =>
          /\ trace[NthDraw(trace, 4)] = MeshDraw("Sphere", << >>)
          /\ SeenByNthDraw(trace, 4, "model") = JarBaseModel

C17_Witness ==
    /\ call = [op |-> "DrawJar", origin |-> JarOrigin]
    /\ m_pShaderManager # "NULL"
    /\ MaterialRegistered("glass")
    /\ trace[NthDraw(trace, 1)].mesh = "Sphere"
    /\ SeenByNthDraw(trace, 1, "model")[2] = <<0, 300, 0, 150>>

\* C18 (amended): one jar invocation issues exactly 10 sub-part draws
C18_JarIssuesTenDraws ==
    call.op = "DrawJar" => Cardinality(Draws(trace)) = 10

\* C18 (as stated): one jar invocation issues exactly 9 sub-part draws
C18_JarIssuesNineDraws ==
    call.op = "DrawJar" => Cardinality(Draws(trace)) = 9

C18_Witness ==
    /\ call.op = "DrawJar"
    /\ Len(SelectSeq(trace, IsDraw)) = 10
    /\ trace[Len(trace)] = MeshDraw("Sphere", << >>)

\* C19: the jar's shapes are drawn in the order sphere, cylinder, sphere, cylinder,
\* torus, torus, sphere, cylinder, torus, sphere, and the UV scale in effect for the
\* fifth draw, the torus after the neck cylinder, is (1.5, 0.3), changed from the
\* neck's (0.8, 0.1)
C19_JarShapeOrderAndRimUV ==
    call.op = "DrawJar" =>
        /\ DrawnMeshes(trace) = << "Sphere", "Cylinder", "Sphere", "Cylinder", "Torus",
                                   "Torus", "Sphere", "Cylinder", "Torus", "Sphere" >>
        /\ m_pShaderManager # "NULL" =>
              /\ SeenByNthDraw(trace, 4, "UVscale") = <<800, 100>>
              /\ SeenByNthDraw(trace, 5, "UVscale") = <<1500, 300>>

C19_Witness ==
    /\ call.op = "DrawJar"
    /\ m_pShaderManager # "NULL"
    /\ DrawnMeshes(trace)[5] = "Torus"
    /\ DrawnMeshes(trace)[4] = "Cylinder"
    /\ SeenByNthDraw(trace, 5, "UVscale") = <<1500, 300>>
    /\ shader["UVscale"] = <<1500, 1000>>

(***************************************************************************)
(* The mesh selectors                                                      *)
(***************************************************************************)
\* the primitive a selector names, for the selectors that pass no flags
PrimitiveOf(drawMeshFunction) ==
    CASE drawMeshFunction = "DrawBoxMeshWrapper" -> "Box"
      [] drawMeshFunction = "DrawConeMeshWrapper" -> "Cone"
      [] drawMeshFunction = "DrawCylinderMeshWrapper" -> "Cylinder"
      [] drawMeshFunction = "DrawPlaneMeshWrapper" -> "Plane"
      [] drawMeshFunction = "DrawPrismMeshWrapper" -> "Prism"
      [] drawMeshFunction = "DrawPyramid3MeshWrapper" -> "Pyramid3"
      [] drawMeshFunction = "DrawPyramid4MeshWrapper" -> "Pyramid4"
      [] drawMeshFunction = "DrawSphereMeshWrapper" -> "Sphere"
      [] drawMeshFunction = "DrawHalfSphereMeshWrapper" -> "HalfSphere"
      [] drawMeshFunction = "DrawTaperedCylinderMeshWrapper" -> "TaperedCylinder"
      [] drawMeshFunction = "DrawTorusMeshWrapper" -> "Torus"
      [] drawMeshFunction = "DrawHalfTorusMeshWrapper" -> "HalfTorus"

\* C20: through DrawMeshTransformation every selector issues exactly one primitive
\* draw, as the last event and after the model upload: its own primitive with no flags
\* passed (the cylinder selector the full cylinder), the hollow selector the cylinder
\* with both caps off, the no-side selector the cylinder with caps on and sides off;
\* DrawNone issues no draw
C20_SelectorDrawsOncePerCall ==
    call.op = "DrawMeshTransformation" =>
        LET f == call.drawMeshFunction
            draws == SelectSeq(trace, IsDraw)
        IN /\ m_pShaderManager # "NULL" =>
                 /\ Len(trace) >= 1
                 /\ trace[1].kind = "uniform"
                 /\ trace[1].name = "model"
                 /\ Len(trace) = 1 + Len(draws)
           /\ m_pShaderManager = "NULL" => Len(trace) = Len(draws)
           /\ IF f = "DrawNone" THEN draws = << >>
              ELSE /\ Len(draws) = 1
                   /\ trace[Len(trace)] = draws[1]
                   /\ draws[1] =
                        CASE f = "DrawHollowCylinderMeshWrapper" ->
                                MeshDraw("Cylinder", <<FALSE, FALSE>>)
                          [] f = "DrawNoSideCylinderMeshWrapper" ->
                                MeshDraw("Cylinder", <<TRUE, TRUE, FALSE>>)
                          [] OTHER -> MeshDraw(PrimitiveOf(f), << >>)

\* the hollow cylinder drawn with a shader manager: the model upload, then the one draw
C20_Witness ==
    /\ call.op = "DrawMeshTransformation"
    /\ call.drawMeshFunction = "DrawHollowCylinderMeshWrapper"
    /\ m_pShaderManager # "NULL"
    /\ Len(trace) = 2
    /\ trace[1].name = "model"
    /\ trace[2] = MeshDraw("Cylinder", <<FALSE, FALSE>>)

(***************************************************************************)
(* Rendering and the registries                                            *)
(***************************************************************************)
\* the rendering calls: a frame, the attribute setters and the compound objects
RenderingOps ==
    {"RenderScene", "SetShaderAttributes", "SetShaderTexture", "SetShaderMaterial"}
        \cup CompoundOps

\* C21: a RenderScene, SetShaderAttributes, SetShaderTexture, SetShaderMaterial or
\* Draw* call that returns leaves the texture table, the loaded-texture count and the
\* material registry exactly as they were before the call
C21_RenderingLeavesRegistries ==
    [][call'.op \in RenderingOps =>
          /\ m_textureIDs' = m_textureIDs
          /\ m_loadedTextures' = m_loadedTextures
          /\ m_objectMaterials' = m_objectMaterials]_vars

\* a frame rendered after a PrepareScene that loaded all ten textures and defined the
\* six materials: the registries are populated and the frame has drawn
C21_Witness ==
    /\ call.op = "RenderScene"
    /\ m_pShaderManager # "NULL"
    /\ Len(loadOrder) = Len(SceneTextures)
    /\ m_loadedTextures = InitialLoadedTextures + Len(SceneTextures)
    /\ Len(m_objectMaterials) = Len(SceneMaterials)
    /\ Draws(trace) # {}

(***************************************************************************)
(* The mesh loads                                                          *)
(***************************************************************************)
\* the mesh kinds of the scene, each once
MeshKindsOnce ==
    << "Plane", "Cylinder", "Sphere", "Torus", "TaperedCylinder", "Box", "Pyramid3",
       "Pyramid4", "Cone", "Prism" >>

\* the positions among the events at which the mesh kind is loaded
LoadsOf(events, mesh) ==
    {k \in 1..Len(events) : events[k].kind = "loadmesh" /\ events[k].mesh = mesh}

C23_ZoomWithinClamp == g_pCamera.Zoom >= 10000 /\ g_pCamera.Zoom <= 160000

(***************************************************************************)
(* Placement uploads during a frame                                        *)
(***************************************************************************)
IsModelUpload(e) == e.kind = "uniform" /\ e.name = "model"

\* the draws of the frame that ShapeMeshes::DrawCylinderMesh issues with all three
\* flags given and the sides off: the caps DrawCucumber draws directly
CapDraws(events) ==
    {d \in Draws(events) : /\ events[d].mesh = "Cylinder"
                           /\ Len(events[d].args) = 3
                           /\ events[d].args[3] = FALSE}

\* the draw at d comes right after a texture switch that comes right after the draw of
\* a hollow cylinder: nothing but the texture flag and the sampler is written between
FollowsSideDraw(events, d) ==
    \E side \in Draws(events) :
        /\ side < d
        /\ events[side] = MeshDraw("Cylinder", <<FALSE, FALSE>>)
        /\ side + 1 < d
        /\ \A k \in (side + 1)..(d - 1) :
              /\ events[k].kind = "uniform"
              /\ events[k].name \in {"bUseTexture", "objectTexture"}

C25_NewManagerCountsNoTextures ==
    /\ call.op = "SceneManager" => m_loadedTextures = 0
    /\ (call.op = "CreateGLTexture" /\ call.ret = TRUE /\ Len(loadOrder) = 1) =>
          m_textureIDs[0].tag = call.tag
    /\ (call.op \in {"FindTextureSlot", "FindTextureID"} /\ loadOrder = << >>) =>
          call.ret = -1

(***************************************************************************)
(* Slots and texture units                                                 *)
(***************************************************************************)
\* the tags of the registered textures
RegisteredTags == {loadOrder[k] : k \in 1..Len(loadOrder)}

\* C26: when PrepareScene has returned (LoadSceneTextures with it), whichever files
\* failed to load, for every registered tag t the lookups succeed, the texture unit
\* numbered FindTextureSlot(t) is bound to the texture name FindTextureID(t), a name
\* that glGenTextures produced, and SetShaderTexture(t) writes that slot as the sampler
C26_SlotAndUnitAgree ==
    PrepareSceneReturned =>
        \A t \in RegisteredTags :
            \A slot \in {FindTextureSlot(t)}, ID \in {FindTextureID(t)} :
                /\ slot.fault = "none" /\ ID.fault = "none"
                /\ slot.ret \in 0..(TextureSlots - 1)
                /\ ID.ret \in gl.textures
                /\ gl.units[slot.ret] = ID.ret
                /\ m_pShaderManager # "NULL" =>
                      SetShaderTexture(t) =
                          Returned(<< Uniform("bUseTexture", 1),
                                      Uniform("objectTexture", slot.ret) >>)

\* the first and a middle file are missing: "counter" is in slot 0 and "marble", the
\* fifth texture of the scene, in slot 2, each bound to the name of its own load
C26_Witness ==
    /\ PrepareSceneReturned
    /\ call.files = SceneFiles({"tile.jpg", "metal.jpg"}, NoImage)
    /\ call.count = 0
    /\ RegisteredTags = {SceneTextures[k].tag : k \in 1..Len(SceneTextures)}
                            \ {"backdrop", "metal"}
    /\ FindTextureSlot("counter").ret = 0
    /\ FindTextureSlot("marble").ret = 2
    /\ gl.units[2] = FindTextureID("marble").ret
    /\ gl.units[2] = 3

(***************************************************************************)
(* Lookups during a frame                                                  *)
(***************************************************************************)
\* every PrepareScene so far (one per six materials) loaded all ten textures
EveryLoadSucceeded ==
    /\ Len(m_objectMaterials) > 0
    /\ Len(loadOrder) * Len(SceneMaterials) = Len(SceneTextures) * Len(m_objectMaterials)

\* the five material uniforms are written at k..k+4 with the fields of a material of
\* the registry
WritesRegisteredMaterial(events, k) ==
    \E i \in 1..Len(m_objectMaterials) :
        SubSeq(events, k, k + 4) = MaterialWrites(m_objectMaterials[i]).events

\* C27: in a frame drawn after PrepareScene runs in which every texture load
\* succeeded, no lookup misses: every sampler written is the slot of a registered
\* texture, never -1, and every material written is a material of the registry,
\* never what an unfound tag leaves in the local
C27_NoLookupMissesInFrame ==
    (call.op = "RenderScene" /\ m_pShaderManager # "NULL" /\ EveryLoadSucceeded) =>
        \A k \in 1..Len(trace) :
            /\ (trace[k].kind = "uniform" /\ trace[k].name = "objectTexture") =>
                  /\ trace[k].value \in 0..(m_loadedTextures - 1)
                  /\ m_textureIDs[trace[k].value].tag \in RegisteredTags
            /\ (trace[k].kind = "uniform" /\ trace[k].name = "material.ambientColor") =>
                  WritesRegisteredMaterial(trace, k)

\* a frame drawn after a PrepareScene that loaded all ten textures: the cucumber's
\* inner texture, eighth in the load order, is written as sampler 7, and the last
\* material written is the knife blade's metal
C27_Witness ==
    /\ call.op = "RenderScene"
    /\ m_pShaderManager # "NULL"
    /\ EveryLoadSucceeded
    /\ InitialLoadedTextures = 0
    /\ \E k \in 1..Len(trace) : trace[k] = Uniform("objectTexture", 7)
    /\ shader["material.shininess"] = 25000
    /\ Draws(trace) # {}

(***************************************************************************)
(* The cucumber                                                            *)
(***************************************************************************)
\* the uniforms in effect at the event at position d, from the uniforms u before
UniformsAt(u, events, d) == ApplyWrites(u, SubSeq(events, 1, d))

\* the last draw before the event at position d
DrawBefore(events, d) ==
    CHOOSE side \in Draws(events) :
        side < d /\ \A other \in Draws(events) : other < d => other <= side

\* C28: in a DrawCucumber made with a shader manager, the materials defined and both
\* cucumber textures registered, every hollow-cylinder draw and the sphere draw see the
\* texture flag on and the sampler of "cucumber_outer", every cap draw (a cylinder
\* drawn directly, sides off) sees the sampler of "cucumber_inner" and the model matrix
\* its side draw saw, and all draws see the colour (0.2, 0.5, 0.2, 1), the UV scale
\* (1, 1) and the material "organic"
C28_CucumberTextures ==
    [][(/\ call'.op = "DrawCucumber"
        /\ m_pShaderManager # "NULL"
        /\ Len(m_objectMaterials) > 0
        /\ TextureRegistered("cucumber_outer")
        /\ TextureRegistered("cucumber_inner")) =>
         /\ Cardinality(Draws(trace')) = 13
         /\ Cardinality(CapDraws(trace')) = 6
         /\ \A d \in Draws(trace') :
               \A seen \in {UniformsAt(shader, trace', d)} :
                  /\ seen["bUseTexture"] = 1
                  /\ seen["objectColor"] = <<200, 500, 200, 1000>>
                  /\ seen["UVscale"] = <<1000, 1000>>
                  /\ seen["material.ambientColor"] = <<250, 280, 250>>
                  /\ seen["material.ambientStrength"] = 150
                  /\ seen["material.diffuseColor"] = <<300, 340, 300>>
                  /\ seen["material.specularColor"] = <<350, 350, 300>>
                  /\ seen["material.shininess"] = 12000
                  /\ IF d \in CapDraws(trace')
                     THEN /\ seen["objectTexture"] = FindTextureSlot("cucumber_inner").ret
                          /\ trace'[DrawBefore(trace', d)] =
                                MeshDraw("Cylinder", <<FALSE, FALSE>>)
                          /\ seen["model"] =
                                UniformsAt(shader, trace', DrawBefore(trace', d))["model"]
                     ELSE /\ seen["objectTexture"] = FindTextureSlot("cucumber_outer").ret
                          /\ trace'[d] \in {MeshDraw("Cylinder", <<FALSE, FALSE>>),
                                            MeshDraw("Sphere", << >>)}]_vars

\* the cucumber drawn after a PrepareScene that loaded every texture from a count of
\* 0: thirteen draws, the last a cap under the inner texture (slot 7, the outer being
\* slot 6)
C28_Witness ==
    /\ call.op = "DrawCucumber"
    /\ m_pShaderManager # "NULL"
    /\ FindTextureSlot("cucumber_outer").ret = 6
    /\ FindTextureSlot("cucumber_inner").ret = 7
    /\ MaterialRegistered("organic")
    /\ Cardinality(Draws(trace)) = 13
    /\ trace[Len(trace)] = MeshDraw("Cylinder", <<TRUE, TRUE, FALSE>>)
    /\ shader["objectTexture"] = 7
    /\ shader["bUseTexture"] = 1

(***************************************************************************)
(* Resources of a failed load                                              *)
(***************************************************************************)
\* C29: a CreateGLTexture call that returns false leaves no resource behind: no decoded
\* image is left unfreed, and the texture names allocated are those allocated before
\* the call
C29_FailedLoadLeavesNothing ==
    [][(call'.op = "CreateGLTexture" /\ call'.ret = FALSE) =>
          /\ gl'.images = gl.images
          /\ gl'.textures = gl.textures]_vars

(***************************************************************************)
(* The shader-state operations without a shader manager                    *)
(***************************************************************************)
ShaderStateOps ==
    {"SetTransformations", "SetShaderColor", "SetShaderTexture", "SetTextureUVScale",
     "SetShaderMaterial", "SetupSceneLights"}

\* the operation of the last step: the one that returned, or the one that faulted
Attempted == IF call.op = "fault" THEN call.in ELSE call.op

\* C30: with a NULL shader manager, a call of SetTransformations, SetShaderColor,
\* SetShaderTexture, SetTextureUVScale, SetShaderMaterial or SetupSceneLights returns
\* without using the null pointer and without writing any uniform
C30_NullShaderManagerIsNoOp ==
    [][(m_pShaderManager = "NULL" /\ Attempted' \in ShaderStateOps) =>
          /\ fault' = "none"
          /\ trace' = << >>
          /\ shader' = shader]_vars

====
